---------------------------- MODULE Spec2Model ----------------------------
(***************************************************************************)
(* Plugin registry (plugins/registry.py), plugin contract                  *)
(* (plugins/base.py) and the lazy tab loader of the main window            *)
(* (app/ui/main_window.py) of the PySide6 tabbed application shell.        *)
(***************************************************************************)
EXTENDS Integers, Sequences, FiniteSets, TLC

(***************************************************************************)
(* Bounds of the model.                                                    *)
(***************************************************************************)
\* number of distinct valid tab names plugins are drawn from
NumNames == 2

\* create_widget calls the model follows a window for
MaxFactoryCalls == 2

(***************************************************************************)
(* Strings that are converted character by character (platform names) are *)
(* sequences of one-character strings.                                     *)
(***************************************************************************)
Windows == <<"W", "i", "n", "d", "o", "w", "s">>
Linux == <<"L", "i", "n", "u", "x">>
FreeBSD == <<"F", "r", "e", "e", "B", "S", "D">>

\* <<upper, lower>> of every cased character of the platform names
CasePairs ==
    { <<"W", "w">>, <<"I", "i">>, <<"N", "n">>, <<"D", "d">>, <<"O", "o">>,
      <<"S", "s">>, <<"L", "l">>, <<"U", "u">>, <<"X", "x">>, <<"F", "f">>,
      <<"R", "r">>, <<"E", "e">>, <<"B", "b">> }

UpperTable == [c \in {p[2] : p \in CasePairs} |-> (CHOOSE p \in CasePairs : p[2] = c)[1]]

LowerTable == [c \in {p[1] : p \in CasePairs} |-> (CHOOSE p \in CasePairs : p[1] = c)[2]]

\* str.upper() of one character
Upper(c) == IF c \in DOMAIN UpperTable THEN UpperTable[c] ELSE c

\* str.lower() of one character
Lower(c) == IF c \in DOMAIN LowerTable THEN LowerTable[c] ELSE c

\* str.lower(): every character lowered
LowerStr(s) == [i \in DOMAIN s |-> Lower(s[i])]

\* str.capitalize(): first character upper-cased, the rest lower-cased
Capitalize(s) == [i \in DOMAIN s |-> IF i = 1 THEN Upper(s[i]) ELSE Lower(s[i])]

(***************************************************************************)
(* Plugin classes (descriptors): the class attributes of BaseTabPlugin.    *)
(***************************************************************************)
\* BaseTabPlugin.tab_name default, the sentinel validate_plugin rejects
UnnamedTab == "Unnamed Tab"

NamePool == <<"Alpha", "Beta", "Gamma", "Delta">>

ValidNames == {NamePool[i] : i \in 1..NumNames}

TabNames == {"", UnnamedTab} \cup ValidNames

\* values of supported_platforms (membership and emptiness are all the code uses)
PlatformLists == { {}, {Windows, Linux}, {FreeBSD} }

PluginVersions == {"", "1.0.0"}

PluginClasses ==
    [tab_name : TabNames,
     supported_platforms : PlatformLists,
     plugin_version : PluginVersions,
     disabled_by_default : BOOLEAN,
     requires_admin : BOOLEAN]

\* the classes offered to the registry on its own (requires_admin is not read by it)
RegistryClasses == {c \in PluginClasses : c.requires_admin = FALSE}

\* values platform.system() returns in the runs modelled
SystemNames == {Linux, FreeBSD}

VARIABLES
    platform_system,    \* platform.system() of this process
    plugins,            \* PluginRegistry._plugins: dict in insertion order, <<[name, cls], ...>>
    core_plugins,       \* PluginRegistry._core_plugins: name -> class
    external_plugins,   \* PluginRegistry._external_plugins: name -> class
    disabled_plugins,   \* PluginRegistry._disabled_plugins
    seen_plugins,       \* PluginRegistry._seen_plugins
    raised,             \* exception the last registry call raised to its caller
    core_regs,          \* history: name -> last class registered as core since the last clear()
    ext_regs,           \* history: names registered as external since the last clear()
    dbd_regs,           \* history: default-disabled classes stored at least once in this session
    is_admin,           \* MainWindow.is_admin
    tabs,               \* MainWindow.tab_widget: its tabs, <<[text, widget], ...>>
    current_index,      \* MainWindow.tab_widget.currentIndex(), -1 without a tab
    loaded_tabs,        \* MainWindow.loaded_tabs: name -> [plugin_class, instance]
    is_loading_tab,     \* MainWindow.is_loading_tab
    factory_calls,      \* history: name -> create_widget calls since add_tab made the entry
    worker_pc,          \* TabLoaderThread: "idle", "discovering", "done", "failed" or "exited"
    signals,            \* signals of the worker queued for the UI thread, in order
    tabs_shown,         \* the tab strip is shown and the loading widget hidden
    dialog_pc,          \* PluginManagementDialog.reload_plugins: "idle", "reloading" or "reloaded"
    plugins_dir,        \* the directory PluginDiscovery.plugins_dir names: [kind, files]
    eps,                \* entry_points(group="gui_app_tabs"): the installed entry points
    sys_path,           \* sys.path
    discovered_plugins, \* PluginDiscovery.discovered_plugins: <<[name, cls, source], ...>>
    loaded_files,       \* history: names of the files exec_module was called on
    registration_results, \* dict register_discovered_plugins returns, in insertion order
    discovery_pc,       \* position of a discovery pass
    next_candidate,     \* register_discovered_plugins: index of the loop in discovered_plugins
    returned,           \* the dict a getter of the registry returned to its caller: [getter, id, value]
    service_pc,         \* position of discover_and_register_all_plugins
    gui_plugins_dir,    \* the directory of the built-in plugins: [kind, files]
    external_summary,   \* discover_and_register_all_plugins: summary of the external pass
    summary,            \* discover_and_register_all_plugins: the summary it returns
    validation,         \* the last call of validate_plugin: [called, cls, errors]
    last_call           \* history: the register_plugin call the last step made, if it was one

registry == <<plugins, core_plugins, external_plugins, disabled_plugins, seen_plugins>>

history == <<core_regs, ext_regs, dbd_regs>>

window == <<is_admin, tabs, current_index, loaded_tabs, is_loading_tab,
            factory_calls, worker_pc, signals, tabs_shown, dialog_pc>>

discovery == <<plugins_dir, eps, sys_path, discovered_plugins, loaded_files,
               registration_results, discovery_pc, next_candidate>>

callers == <<returned, service_pc, gui_plugins_dir, external_summary, summary,
             validation, last_call>>

vars == <<platform_system, discovery, callers, plugins, core_plugins, external_plugins,
          disabled_plugins, seen_plugins, raised, core_regs, ext_regs, dbd_regs,
          is_admin, tabs, current_index, loaded_tabs, is_loading_tab,
          factory_calls, worker_pc, signals, tabs_shown, dialog_pc>>

(***************************************************************************)
(* Python dict helpers.                                                    *)
(***************************************************************************)
\* the empty dict as a function
EmptyMap == [n \in {} |-> n]

\* d.keys()
Keys(d) == {d[i].name : i \in DOMAIN d}

\* d[name]
Get(d, name) == d[CHOOSE i \in DOMAIN d : d[i].name = name].cls

\* variant: d[name] = cls always appends an entry
DictSet_AlwaysAppend(d, name, cls) == Append(d, [name |-> name, cls |-> cls])

\* del d[name]
DictDel(d, name) == SelectSeq(d, LAMBDA e : e.name # name)

\* d[name] = cls : an existing key keeps its position, a new key is appended
DictSet(d, name, cls) ==
    IF name \in Keys(d)
    THEN [i \in DOMAIN d |-> IF d[i].name = name THEN [name |-> name, cls |-> cls] ELSE d[i]]
    ELSE Append(d, [name |-> name, cls |-> cls])

\* m[name] = cls for a dict whose order is never read
MapSet(m, name, cls) == [n \in DOMAIN m \cup {name} |-> IF n = name THEN cls ELSE m[n]]

\* del m[name]
MapDel(m, name) == [n \in DOMAIN m \ {name} |-> m[n]]

(***************************************************************************)
(* plugins/base.py                                                         *)
(***************************************************************************)
\* variant: validate_plugin returns at the first violation it finds
validate_plugin_FirstOnly(cls) ==
    IF cls.tab_name = "" \/ cls.tab_name = UnnamedTab
    THEN <<"Plugin must define a valid tab_name">>
    ELSE IF cls.supported_platforms = {}
         THEN <<"Plugin must define supported_platforms">>
         ELSE IF cls.plugin_version = ""
              THEN <<"Plugin must define plugin_version">>
              ELSE <<>>

\* variant: validate_plugin without the plugin_version check
validate_plugin_NoVersionCheck(cls) ==
    (IF cls.tab_name = "" \/ cls.tab_name = UnnamedTab
     THEN <<"Plugin must define a valid tab_name">> ELSE <<>>)
    \o (IF cls.supported_platforms = {}
        THEN <<"Plugin must define supported_platforms">> ELSE <<>>)

\* BaseTabPlugin.validate_plugin: the list of error messages
validate_plugin(cls) ==
    (IF cls.tab_name = "" \/ cls.tab_name = UnnamedTab
     THEN <<"Plugin must define a valid tab_name">> ELSE <<>>)
    \o (IF cls.supported_platforms = {}
        THEN <<"Plugin must define supported_platforms">> ELSE <<>>)
    \o (IF cls.plugin_version = ""
        THEN <<"Plugin must define plugin_version">> ELSE <<>>)

\* variant: is_supported_platform without capitalize()
is_supported_platform_NoCapitalize(cls, platform_name) ==
    platform_name \in cls.supported_platforms

\* BaseTabPlugin.is_supported_platform
is_supported_platform(cls, platform_name) ==
    Capitalize(platform_name) \in cls.supported_platforms

\* BaseTabPlugin.is_compatible, with get_current_platform() = platform.system()
is_compatible(cls) == is_supported_platform(cls, platform_system)

(***************************************************************************)
(* plugins/registry.py                                                     *)
(***************************************************************************)
\* register_plugin: the validation gate (raise ValueError)
FailsValidation(cls) == validate_plugin(cls) # <<>>

\* variant: an external plugin is never skipped
SkipsExternal_Never(plugin_name, is_core) == FALSE

\* register_plugin: an external plugin meets an existing core plugin (return)
SkipsExternal(plugin_name, is_core) ==
    /\ plugin_name \in Keys(plugins)
    /\ plugin_name \in DOMAIN core_plugins
    /\ ~is_core

\* variant: the external entry is never deleted
ReplacesExternal_Never(plugin_name, is_core) == FALSE

\* register_plugin: a core plugin meets an existing external plugin (del external)
ReplacesExternal(plugin_name, is_core) ==
    /\ plugin_name \in Keys(plugins)
    /\ plugin_name \notin DOMAIN core_plugins
    /\ is_core
    /\ plugin_name \in DOMAIN external_plugins

\* variant: the default-disabled rule without the first-sight test
AppliesDefaultDisabled_EveryTime(cls) ==
    /\ cls.disabled_by_default
    /\ cls.tab_name \notin disabled_plugins

\* register_plugin: the default-disabled rule
\* variant: the default-disabled state is applied from the second sight on
AppliesDefaultDisabled_OnceSeen(cls) ==
    /\ cls.disabled_by_default
    /\ cls.tab_name \in seen_plugins
    /\ cls.tab_name \notin disabled_plugins

AppliesDefaultDisabled(cls) ==
    /\ cls.disabled_by_default
    /\ cls.tab_name \notin seen_plugins
    /\ cls.tab_name \notin disabled_plugins

\* register_plugin: the stores after the conflict handling
StorePlugin(cls, is_core) ==
    LET plugin_name == cls.tab_name
        ext == IF ReplacesExternal(plugin_name, is_core)
               THEN MapDel(external_plugins, plugin_name)
               ELSE external_plugins
    IN  /\ plugins' = DictSet(plugins, plugin_name, cls)
        /\ IF is_core
           THEN /\ core_plugins' = MapSet(core_plugins, plugin_name, cls)
                /\ external_plugins' = ext
           ELSE /\ external_plugins' = MapSet(ext, plugin_name, cls)
                /\ core_plugins' = core_plugins

\* variant: the name is marked as seen before validation rejects the class
RejectInvalid_AfterMarkingSeen(cls) ==
    /\ raised' = "ValueError"
    /\ seen_plugins' = seen_plugins \cup {cls.tab_name}
    /\ UNCHANGED <<plugins, core_plugins, external_plugins, disabled_plugins>>

\* register_plugin: raise ValueError, before any store is written
RejectInvalid(cls) ==
    /\ raised' = "ValueError"
    /\ UNCHANGED registry

\* variant: a skipped class has its name marked as seen, and disabled when
\* the class is disabled by default
SkipRegistration_MarksSeen(cls) ==
    /\ disabled_plugins' = IF cls.disabled_by_default
                            THEN disabled_plugins \cup {cls.tab_name}
                            ELSE disabled_plugins
    /\ seen_plugins' = seen_plugins \cup {cls.tab_name}
    /\ UNCHANGED <<plugins, core_plugins, external_plugins>>

\* register_plugin: the two return statements that skip the class
SkipRegistration(cls) == UNCHANGED registry

\* PluginRegistry.register_plugin
register_plugin(cls, is_core) ==
    IF FailsValidation(cls)
    THEN RejectInvalid(cls)
    ELSE /\ raised' = "none"
         /\ IF ~is_compatible(cls) \/ SkipsExternal(cls.tab_name, is_core)
            THEN SkipRegistration(cls)
            ELSE /\ StorePlugin(cls, is_core)
                 /\ disabled_plugins' =
                        IF AppliesDefaultDisabled(cls)
                        THEN disabled_plugins \cup {cls.tab_name}
                        ELSE disabled_plugins
                 /\ seen_plugins' = seen_plugins \cup {cls.tab_name}

\* variant: clear leaves _plugins as it is
clear_KeepsPlugins ==
    /\ core_plugins' = EmptyMap
    /\ external_plugins' = EmptyMap
    /\ raised' = "none"
    /\ UNCHANGED <<plugins, disabled_plugins, seen_plugins>>

\* variant: clear resets the session's seen names as well
clear_ForgetsSeen ==
    /\ plugins' = <<>>
    /\ core_plugins' = EmptyMap
    /\ external_plugins' = EmptyMap
    /\ seen_plugins' = {}
    /\ raised' = "none"
    /\ UNCHANGED disabled_plugins

\* PluginRegistry.clear
clear ==
    /\ plugins' = <<>>
    /\ core_plugins' = EmptyMap
    /\ external_plugins' = EmptyMap
    /\ raised' = "none"
    /\ UNCHANGED <<disabled_plugins, seen_plugins>>

\* PluginRegistry.disable_plugin
disable_plugin(name) ==
    /\ disabled_plugins' = disabled_plugins \cup {name}
    /\ raised' = "none"
    /\ UNCHANGED <<plugins, core_plugins, external_plugins, seen_plugins>>

\* variant: enable_plugin flips the disabled status of the name
enable_plugin_Toggles(name) ==
    /\ disabled_plugins' = IF name \in disabled_plugins
                            THEN disabled_plugins \ {name}
                            ELSE disabled_plugins \cup {name}
    /\ raised' = "none"
    /\ UNCHANGED <<plugins, core_plugins, external_plugins, seen_plugins>>

\* PluginRegistry.enable_plugin
enable_plugin(name) ==
    /\ disabled_plugins' = disabled_plugins \ {name}
    /\ raised' = "none"
    /\ UNCHANGED <<plugins, core_plugins, external_plugins, seen_plugins>>

\* PluginRegistry.is_enabled
is_enabled(name) == name \notin disabled_plugins

\* variant: get_all_plugins returns the registry's own dict
get_all_plugins_NoCopy == [getter |-> "get_all_plugins", id |-> "_plugins", value |-> plugins]

\* PluginRegistry.get_all_plugins: self._plugins.copy(), a new dict with the entries
get_all_plugins == [getter |-> "get_all_plugins", id |-> "new", value |-> plugins]

\* PluginRegistry.get_core_plugins: self._core_plugins.copy()
get_core_plugins == [getter |-> "get_core_plugins", id |-> "new", value |-> core_plugins]

\* PluginRegistry.get_external_plugins: self._external_plugins.copy()
get_external_plugins ==
    [getter |-> "get_external_plugins", id |-> "new", value |-> external_plugins]

\* variant: get_enabled_plugins without the is_enabled filter
get_enabled_plugins_Unfiltered == plugins

\* PluginRegistry.get_enabled_plugins: the entries of _plugins that are enabled, in order
get_enabled_plugins == SelectSeq(plugins, LAMBDA e : is_enabled(e.name))

(***************************************************************************)
(* The registry driven by arbitrary callers.                               *)
(***************************************************************************)
\* a register_plugin call that reaches the stores
Registers(cls, is_core) ==
    /\ ~FailsValidation(cls)
    /\ is_compatible(cls)
    /\ ~SkipsExternal(cls.tab_name, is_core)

\* a register_plugin call on a valid, compatible class (stored or skipped on conflict)
Accepted(cls) == ~FailsValidation(cls) /\ is_compatible(cls)

\* the registry of a process whose window is not modelled
NoWindow ==
    /\ is_admin = FALSE
    /\ tabs = <<>>
    /\ current_index = -1
    /\ loaded_tabs = EmptyMap
    /\ is_loading_tab = FALSE
    /\ factory_calls = EmptyMap
    /\ worker_pc = "idle"
    /\ signals = <<>>
    /\ tabs_shown = FALSE
    /\ dialog_pc = "idle"

\* validate_plugin has not been called (cls is of no account)
NotCalled ==
    [called |-> FALSE,
     cls |-> [tab_name |-> "", supported_platforms |-> {}, plugin_version |-> "",
              disabled_by_default |-> FALSE, requires_admin |-> FALSE],
     errors |-> <<>>]

\* the last step made no register_plugin call (cls is of no account)
NoCall == [made |-> FALSE, cls |-> NotCalled.cls, is_core |-> FALSE]

\* a process in which no caller of the registry's getters and no run of
\* discover_and_register_all_plugins is modelled
NoCallers ==
    /\ returned = [getter |-> "none", id |-> "none", value |-> <<>>]
    /\ service_pc = "idle"
    /\ gui_plugins_dir = [kind |-> "missing", files |-> <<>>]
    /\ external_summary = EmptyMap
    /\ summary = EmptyMap
    /\ validation = NotCalled
    /\ last_call = NoCall

\* a process in which no discovery pass is modelled
NoDiscovery ==
    /\ plugins_dir = [kind |-> "missing", files |-> <<>>]
    /\ eps = [raises |-> FALSE, items |-> <<>>]
    /\ sys_path = <<>>
    /\ discovered_plugins = <<>>
    /\ loaded_files = <<>>
    /\ registration_results = <<>>
    /\ discovery_pc = "idle"
    /\ next_candidate = 1

\* PluginRegistry.__init__
EmptyRegistry ==
    /\ plugins = <<>>
    /\ core_plugins = EmptyMap
    /\ external_plugins = EmptyMap
    /\ disabled_plugins = {}
    /\ seen_plugins = {}
    /\ raised = "none"
    /\ core_regs = EmptyMap
    /\ ext_regs = {}
    /\ dbd_regs = {}

RegistryInit ==
    /\ platform_system \in SystemNames
    /\ EmptyRegistry
    /\ NoWindow
    /\ NoDiscovery
    /\ NoCallers

Register(cls, is_core) ==
    /\ register_plugin(cls, is_core)
    /\ UNCHANGED <<history, platform_system, discovery, callers, window>>

Clear ==
    /\ clear
    /\ UNCHANGED <<history, platform_system, discovery, callers, window>>

Disable(name) ==
    /\ disable_plugin(name)
    /\ UNCHANGED <<history, platform_system, discovery, callers, window>>

Enable(name) ==
    /\ enable_plugin(name)
    /\ UNCHANGED <<history, platform_system, discovery, callers, window>>

RegistryNext ==
    \/ \E cls \in RegistryClasses, is_core \in BOOLEAN : Register(cls, is_core)
    \/ Clear
    \/ \E name \in ValidNames : Disable(name)
    \/ \E name \in ValidNames : Enable(name)

Spec == RegistryInit /\ [][RegistryNext]_vars

(***************************************************************************)
(* validate_plugin called on every class.                                  *)
(***************************************************************************)
\* cls.validate_plugin() returns its list; it has no statement that raises
Validates(cls) ==
    /\ validation' = [called |-> TRUE, cls |-> cls, errors |-> validate_plugin(cls)]
    /\ raised' = "none"
    /\ UNCHANGED <<registry, history, platform_system, discovery, window, returned,
                   service_pc, gui_plugins_dir, external_summary, summary, last_call>>

ValidateNext == \E cls \in PluginClasses : Validates(cls)

SpecValidate == RegistryInit /\ [][ValidateNext]_vars

(***************************************************************************)
(* The registry with a caller of its getters: the caller holds the dict    *)
(* the last getter returned and adds, replaces and removes entries in it.  *)
(* A dict object is known by its id: "_plugins", "_core_plugins" and       *)
(* "_external_plugins" are the registry's own, "new" is any other.         *)
(***************************************************************************)
\* number of tab names the registry and the caller of this section use
MaxSnapshotNames == 1

SnapshotNames == {NamePool[i] : i \in 1..MaxSnapshotNames}

\* the classes registered in this section
SnapshotClasses == {c \in RegistryClasses : c.tab_name \notin ValidNames \ SnapshotNames}

\* the dict get_enabled_plugins builds with its comprehension
enabled_plugins_dict ==
    [getter |-> "get_enabled_plugins", id |-> "new", value |-> get_enabled_plugins]

\* the getters whose dict is modelled in insertion order
OrderedGetters == {"get_all_plugins", "get_enabled_plugins"}

\* the entries the dict object holds now: those of the registry's dict when
\* the object is one, else those the caller was given and wrote
Entries(dict) ==
    CASE dict.id = "_plugins" -> plugins
      [] dict.id = "_core_plugins" -> core_plugins
      [] dict.id = "_external_plugins" -> external_plugins
      [] OTHER -> dict.value

\* the classes a caller stores in a dict it holds
CallerClasses(name) ==
    {c \in RegistryClasses : /\ c.tab_name = name
                             /\ c.supported_platforms = {FreeBSD}
                             /\ c.plugin_version = "1.0.0"
                             /\ ~c.disabled_by_default}

\* d[name] = cls and del d[name] on the dict object
Written(dict, op, name, cls) ==
    IF dict.getter \in OrderedGetters
    THEN IF op = "set" THEN DictSet(Entries(dict), name, cls) ELSE DictDel(Entries(dict), name)
    ELSE IF op = "set" THEN MapSet(Entries(dict), name, cls) ELSE MapDel(Entries(dict), name)

\* a caller calls one of the four getters and keeps what it returns
CallerGets(dict) ==
    /\ returned' = dict
    /\ UNCHANGED <<registry, raised, history, platform_system, discovery, window,
                   service_pc, gui_plugins_dir, external_summary, summary, validation, last_call>>

\* the caller writes to the dict it holds; the write reaches the registry
\* when the dict is one of the registry's own
CallerWrites(op, name, cls) ==
    /\ returned.getter # "none"
    /\ LET value == Written(returned, op, name, cls)
       IN  /\ returned' = [returned EXCEPT !.value = value]
           /\ plugins' = IF returned.id = "_plugins" THEN value ELSE plugins
           /\ core_plugins' = IF returned.id = "_core_plugins" THEN value ELSE core_plugins
           /\ external_plugins' =
                    IF returned.id = "_external_plugins" THEN value ELSE external_plugins
    /\ UNCHANGED <<disabled_plugins, seen_plugins, raised, history, platform_system,
                   discovery, window, service_pc, gui_plugins_dir, external_summary,
                   summary, validation, last_call>>

SnapshotNext ==
    \/ \E cls \in SnapshotClasses, is_core \in BOOLEAN : Register(cls, is_core)
    \/ Clear
    \/ \E name \in SnapshotNames : Disable(name)
    \/ \E name \in SnapshotNames : Enable(name)
    \/ \E dict \in {get_all_plugins, get_core_plugins, get_external_plugins,
                    enabled_plugins_dict} : CallerGets(dict)
    \/ \E op \in {"set", "del"}, name \in SnapshotNames :
       \E cls \in CallerClasses(name) : CallerWrites(op, name, cls)

SpecSnapshot == RegistryInit /\ [][SnapshotNext]_vars

(***************************************************************************)
(* The registry with the history of the last call: which class             *)
(* register_plugin was called on, and whether as core plugin.              *)
(***************************************************************************)
RegisterCalled(cls, is_core) ==
    /\ register_plugin(cls, is_core)
    /\ last_call' = [made |-> TRUE, cls |-> cls, is_core |-> is_core]
    /\ UNCHANGED <<history, platform_system, discovery, window, returned, service_pc,
                   gui_plugins_dir, external_summary, summary, validation>>

\* clear, disable_plugin or enable_plugin is called
ClearCalled ==
    /\ clear
    /\ last_call' = NoCall
    /\ UNCHANGED <<history, platform_system, discovery, window, returned, service_pc,
                   gui_plugins_dir, external_summary, summary, validation>>

DisableCalled(name) ==
    /\ disable_plugin(name)
    /\ last_call' = NoCall
    /\ UNCHANGED <<history, platform_system, discovery, window, returned, service_pc,
                   gui_plugins_dir, external_summary, summary, validation>>

EnableCalled(name) ==
    /\ enable_plugin(name)
    /\ last_call' = NoCall
    /\ UNCHANGED <<history, platform_system, discovery, window, returned, service_pc,
                   gui_plugins_dir, external_summary, summary, validation>>

CallsNext ==
    \/ \E cls \in SnapshotClasses, is_core \in BOOLEAN : RegisterCalled(cls, is_core)
    \/ ClearCalled
    \/ \E name \in SnapshotNames : DisableCalled(name)
    \/ \E name \in SnapshotNames : EnableCalled(name)

SpecCalls == RegistryInit /\ [][CallsNext]_vars

(***************************************************************************)
(* The same registry with the history of its register_plugin calls: which  *)
(* names were registered as core and as external since the last clear().   *)
(***************************************************************************)
RegisterLogged(cls, is_core) ==
    /\ register_plugin(cls, is_core)
    /\ core_regs' = IF Accepted(cls) /\ is_core
                    THEN MapSet(core_regs, cls.tab_name, cls) ELSE core_regs
    /\ ext_regs' = IF Accepted(cls) /\ ~is_core
                   THEN ext_regs \cup {cls.tab_name} ELSE ext_regs
    /\ UNCHANGED <<dbd_regs, platform_system, discovery, callers, window>>

ClearLogged ==
    /\ clear
    /\ core_regs' = EmptyMap
    /\ ext_regs' = {}
    /\ UNCHANGED <<dbd_regs, platform_system, discovery, callers, window>>

LoggedNext ==
    \/ \E cls \in RegistryClasses, is_core \in BOOLEAN : RegisterLogged(cls, is_core)
    \/ ClearLogged
    \/ \E name \in ValidNames : Disable(name)
    \/ \E name \in ValidNames : Enable(name)

SpecLogged == RegistryInit /\ [][LoggedNext]_vars

(***************************************************************************)
(* The same registry with the set of default-disabled classes that have    *)
(* been stored at least once in this session.                              *)
(***************************************************************************)
RegisterFirst(cls, is_core) ==
    /\ register_plugin(cls, is_core)
    /\ dbd_regs' = IF Registers(cls, is_core) /\ cls.disabled_by_default
                   THEN dbd_regs \cup {cls} ELSE dbd_regs
    /\ UNCHANGED <<core_regs, ext_regs, platform_system, discovery, callers, window>>

FirstNext ==
    \/ \E cls \in RegistryClasses, is_core \in BOOLEAN : RegisterFirst(cls, is_core)
    \/ Clear
    \/ \E name \in ValidNames : Disable(name)
    \/ \E name \in ValidNames : Enable(name)

SpecFirst == RegistryInit /\ [][FirstNext]_vars

(***************************************************************************)
(* app/utils/admin.py                                                      *)
(***************************************************************************)
\* variant: the platform is not consulted
needs_admin_for_plugin_AnyPlatform(is_windows, requires_admin, admin) ==
    requires_admin /\ ~admin

\* needs_admin_for_plugin
needs_admin_for_plugin(is_windows, requires_admin, admin) ==
    is_windows /\ requires_admin /\ ~admin

(***************************************************************************)
(* app/ui/main_window.py: the tab widget and the lazy tab loader.          *)
(***************************************************************************)
\* CURRENT_PLATFORM = platform.system().lower()
CURRENT_PLATFORM == LowerStr(platform_system)

\* the literal "windows" CURRENT_PLATFORM is compared with
WindowsLiteral == <<"w", "i", "n", "d", "o", "w", "s">>

\* the literal "linux" CURRENT_PLATFORM is compared with
LinuxLiteral == <<"l", "i", "n", "u", "x">>

\* the values of platform.system() the module imports on (others raise RuntimeError)
WindowSystemNames ==
    {s \in {Windows, Linux, FreeBSD} : LowerStr(s) \in {WindowsLiteral, LinuxLiteral}}

\* contents of a tab, and values of loaded_tabs[name]["instance"]
NoInstance == [kind |-> "None", message |-> ""]

LoadingPlaceholder == [kind |-> "LoadingPlaceholder", message |-> ""]

AdminRequiredPlaceholder == [kind |-> "AdminRequiredPlaceholder", message |-> ""]

ErrorPlaceholder(error_message) == [kind |-> "ErrorPlaceholder", message |-> error_message]

\* the widget a plugin's create_widget returns
PluginWidget == [kind |-> "PluginWidget", message |-> ""]

\* what a call of plugin_class.create_widget does: return a widget, or raise
FactoryOutcomes == {[raises |-> FALSE, message |-> ""], [raises |-> TRUE, message |-> "boom"]}

\* the TabPlugin subclasses discovery finds in the plugins directory in a run of
\* the window: valid, for both platforms, enabled by default
WindowClasses ==
    {c \in PluginClasses :
        /\ c.tab_name \in ValidNames
        /\ c.supported_platforms = {Windows, Linux}
        /\ c.plugin_version = "1.0.0"
        /\ c.disabled_by_default = FALSE}

\* the window's tab state as one value
UI ==
    [tabs |-> tabs, current |-> current_index, loaded |-> loaded_tabs,
     loading |-> is_loading_tab, calls |-> factory_calls]

\* QTabWidget.tabText
tabText(ui, index) ==
    IF index >= 0 /\ index < Len(ui.tabs) THEN ui.tabs[index + 1].text ELSE ""

RECURSIVE on_tab_changed(_, _, _)

\* QTabWidget.removeTab: the tab right of a removed current tab becomes current
\* (the last one if there is none), and currentChanged is emitted when the
\* current index or tab changes
removeTab(ui, index, outcome) ==
    LET n == Len(ui.tabs)
        rest == [i \in 1..(n - 1) |-> IF i < index + 1 THEN ui.tabs[i] ELSE ui.tabs[i + 1]]
        cur == IF index = ui.current
               THEN (IF n = 1 THEN -1 ELSE IF index < n - 1 THEN index ELSE index - 1)
               ELSE IF index < ui.current THEN ui.current - 1 ELSE ui.current
        u == [ui EXCEPT !.tabs = rest, !.current = cur]
    IN  IF index < 0 \/ index >= n THEN ui
        ELSE IF index <= ui.current THEN on_tab_changed(u, cur, outcome)
        ELSE u

\* QTabWidget.insertTab: the first tab becomes current (currentChanged is
\* emitted), a tab inserted at or before the current one shifts the index
insertTab(ui, index, widget, text, outcome) ==
    LET n == Len(ui.tabs)
        at == IF index < 0 \/ index > n THEN n ELSE index
        more == [i \in 1..(n + 1) |->
                    IF i < at + 1 THEN ui.tabs[i]
                    ELSE IF i = at + 1 THEN [text |-> text, widget |-> widget]
                    ELSE ui.tabs[i - 1]]
    IN  IF n = 0
        THEN on_tab_changed([ui EXCEPT !.tabs = more, !.current = 0], 0, outcome)
        ELSE [ui EXCEPT !.tabs = more,
                        !.current = IF at <= ui.current THEN ui.current + 1 ELSE ui.current]

\* QTabWidget.addTab
addTab(ui, widget, text, outcome) == insertTab(ui, Len(ui.tabs), widget, text, outcome)

\* QTabWidget.setCurrentIndex: currentChanged is emitted when the index changes
setCurrentIndex(ui, index, outcome) ==
    IF index >= 0 /\ index < Len(ui.tabs) /\ index # ui.current
    THEN on_tab_changed([ui EXCEPT !.current = index], index, outcome)
    ELSE ui

\* on_tab_changed: removeTab, insertTab, setCurrentIndex on the tab at index
ReplaceTab(ui, index, widget, tab_name, outcome) ==
    setCurrentIndex(
        insertTab(removeTab(ui, index, outcome), index, widget, tab_name, outcome),
        index, outcome)

\* variant: the error placeholder is built without the message of the exception
FactoryRaised_NoMessage(ui, index, tab_name, outcome) ==
    ReplaceTab([ui EXCEPT !.calls[tab_name] = @ + 1],
               index, ErrorPlaceholder(""), tab_name, outcome)

\* on_tab_changed: the except branch, after create_widget raised
FactoryRaised(ui, index, tab_name, outcome) ==
    ReplaceTab([ui EXCEPT !.calls[tab_name] = @ + 1],
               index, ErrorPlaceholder(outcome.message), tab_name, outcome)

\* on_tab_changed: create_widget returned, the instance is cached
FactoryReturned(ui, index, tab_name, outcome) ==
    ReplaceTab([ui EXCEPT !.calls[tab_name] = @ + 1,
                          !.loaded[tab_name].instance = PluginWidget],
               index, PluginWidget, tab_name, outcome)

\* on_tab_changed: the admin-required placeholder is cached as the instance
AdminBlocks(ui, index, tab_name, outcome) ==
    ReplaceTab([ui EXCEPT !.loaded[tab_name].instance = AdminRequiredPlaceholder],
               index, AdminRequiredPlaceholder, tab_name, outcome)

\* on_tab_changed: "tab_info and not tab_info['instance']"
NeedsLoading(ui, tab_name) ==
    /\ tab_name \in DOMAIN ui.loaded
    /\ ui.loaded[tab_name].instance = NoInstance

\* variant: the guard stays set when the handler returns
ReleaseGuard_Never(ui) == ui

\* on_tab_changed: the finally clause
ReleaseGuard(ui) == [ui EXCEPT !.loading = FALSE]

\* MainWindow.on_tab_changed, the slot of tab_widget.currentChanged
on_tab_changed(ui, index, outcome) ==
    IF ui.loading \/ index < 0 THEN ui
    ELSE
        LET guarded == [ui EXCEPT !.loading = TRUE]
            tab_name == tabText(guarded, index)
            done ==
                IF NeedsLoading(guarded, tab_name)
                THEN IF needs_admin_for_plugin(
                            CURRENT_PLATFORM = WindowsLiteral,
                            guarded.loaded[tab_name].plugin_class.requires_admin,
                            is_admin)
                     THEN AdminBlocks(guarded, index, tab_name, outcome)
                     ELSE IF outcome.raises
                          THEN FactoryRaised(guarded, index, tab_name, outcome)
                          ELSE FactoryReturned(guarded, index, tab_name, outcome)
                ELSE guarded
        IN  ReleaseGuard(done)

\* MainWindow.add_tab
add_tab(ui, tab_name, plugin_class, outcome) ==
    addTab([ui EXCEPT
                !.loaded = MapSet(@, tab_name,
                                  [plugin_class |-> plugin_class, instance |-> NoInstance]),
                !.calls = MapSet(@, tab_name, 0)],
           LoadingPlaceholder, tab_name, outcome)

\* MainWindow.on_plugin_toggled, reading the registry after the toggle
on_plugin_toggled(ui, plugin_name, enabled, outcome) ==
    IF enabled
    THEN IF plugin_name \notin DOMAIN ui.loaded /\ plugin_name \in Keys(plugins)
         THEN add_tab(ui, plugin_name, Get(plugins, plugin_name), outcome)
         ELSE ui
    ELSE
        LET found == {i \in 0..(Len(ui.tabs) - 1) : tabText(ui, i) = plugin_name}
            first == CHOOSE i \in found : \A j \in found : i <= j
            removed == IF found # {} THEN removeTab(ui, first, outcome) ELSE ui
        IN  IF plugin_name \in DOMAIN removed.loaded
            THEN [removed EXCEPT !.loaded = MapDel(@, plugin_name),
                                 !.calls = MapDel(@, plugin_name)]
            ELSE removed

\* the window's tab state after a slot has run
SetUI(ui) ==
    /\ tabs' = ui.tabs
    /\ current_index' = ui.current
    /\ loaded_tabs' = ui.loaded
    /\ is_loading_tab' = ui.loading
    /\ factory_calls' = ui.calls

RECURSIVE TotalCalls(_)
\* create_widget calls counted over the entries of loaded_tabs
TotalCalls(names) ==
    IF names = {} THEN 0
    ELSE LET n == CHOOSE x \in names : TRUE
         IN  factory_calls[n] + TotalCalls(names \ {n})

\* the counted create_widget calls have not reached the bound of the model
CallsBelowBound == TotalCalls(DOMAIN factory_calls) < MaxFactoryCalls

registry_and_history ==
    <<plugins, core_plugins, external_plugins, disabled_plugins, seen_plugins,
      raised, core_regs, ext_regs, dbd_regs>>

\* MainWindow.__init__: an empty tab widget, the worker started
WindowInit ==
    /\ platform_system \in WindowSystemNames
    /\ EmptyRegistry
    /\ NoDiscovery
    /\ NoCallers
    /\ is_admin \in BOOLEAN
    /\ tabs = <<>>
    /\ current_index = -1
    /\ loaded_tabs = EmptyMap
    /\ is_loading_tab = FALSE
    /\ factory_calls = EmptyMap
    /\ worker_pc = "discovering"
    /\ signals = <<>>
    /\ tabs_shown = FALSE
    /\ dialog_pc = "idle"

\* variant: discovery calls create_widget of the class it examines
is_valid_plugin_class_CallsFactory(calls, cls) == MapSet(calls, cls.tab_name, 1)

\* PluginDiscovery._is_valid_plugin_class: create_widget is tested with hasattr
\* and callable and is not called; the counted calls stay as they are
is_valid_plugin_class(calls, cls) == calls

\* TabLoaderThread.run: discovery registers one class; a TabPlugin subclass has
\* no is_core_plugin attribute, so is_core is False
WorkerRegisters(cls) ==
    /\ worker_pc = "discovering"
    /\ register_plugin(cls, FALSE)
    /\ factory_calls' = is_valid_plugin_class(factory_calls, cls)
    /\ UNCHANGED <<history, platform_system, discovery, callers, dialog_pc, is_admin, tabs, current_index, loaded_tabs,
                   is_loading_tab, worker_pc, signals, tabs_shown>>

\* finished.emit()
FinishedSignal == [signal |-> "finished", tab_name |-> "", plugin_class |-> "", message |-> ""]

\* error.emit(str(e))
ErrorSignal(message) == [signal |-> "error", tab_name |-> "", plugin_class |-> "", message |-> message]

\* TabLoaderThread.run: the add_tab.emit calls of the first k rounds of the loop
AddTabSignals(k) ==
    [i \in 1..k |->
        [signal |-> "add_tab", tab_name |-> get_enabled_plugins[i].name,
         plugin_class |-> get_enabled_plugins[i].cls, message |-> ""]]

\* TabLoaderThread.run: add_tab is emitted for every enabled plugin, then finished
WorkerEmits ==
    /\ worker_pc = "discovering"
    /\ worker_pc' = "done"
    /\ signals' = signals \o AddTabSignals(Len(get_enabled_plugins)) \o <<FinishedSignal>>
    /\ UNCHANGED <<registry_and_history, platform_system, discovery, callers, dialog_pc, is_admin, tabs, current_index,
                   loaded_tabs, is_loading_tab, factory_calls, tabs_shown>>

\* TabLoaderThread.run: discovery raised, error is emitted
WorkerFails ==
    /\ worker_pc = "discovering"
    /\ worker_pc' = "failed"
    /\ signals' = Append(signals, ErrorSignal("boom"))
    /\ UNCHANGED <<registry_and_history, platform_system, discovery, callers, dialog_pc, is_admin, tabs, current_index,
                   loaded_tabs, is_loading_tab, factory_calls, tabs_shown>>

\* the UI thread runs the add_tab slot for the oldest queued signal
DeliverAddTab(outcome) ==
    /\ signals # <<>>
    /\ Head(signals).signal = "add_tab"
    /\ CallsBelowBound
    /\ SetUI(add_tab(UI, Head(signals).tab_name, Head(signals).plugin_class, outcome))
    /\ signals' = Tail(signals)
    /\ UNCHANGED <<registry_and_history, platform_system, discovery, callers, dialog_pc, is_admin, worker_pc, tabs_shown>>

\* variant: only on_tabs_loaded shows the tab strip
ShowsTabStrip_OnlyFinished(signal) == signal = "finished"

\* on_tabs_loaded and on_tab_load_error: loading_widget.hide(), tab_widget.show()
ShowsTabStrip(signal) == signal \in {"finished", "error"}

\* the UI thread runs on_tabs_loaded or on_tab_load_error
DeliverTerminal ==
    /\ signals # <<>>
    /\ Head(signals).signal \in {"finished", "error"}
    /\ tabs_shown' = (tabs_shown \/ ShowsTabStrip(Head(signals).signal))
    /\ signals' = Tail(signals)
    /\ UNCHANGED <<registry_and_history, platform_system, discovery, callers, dialog_pc, is_admin, tabs, current_index,
                   loaded_tabs, is_loading_tab, factory_calls, worker_pc>>

\* the user selects another tab of the shown tab strip
SelectTab(index, outcome) ==
    /\ tabs_shown
    /\ index \in 0..(Len(tabs) - 1)
    /\ index # current_index
    /\ CallsBelowBound
    /\ SetUI(setCurrentIndex(UI, index, outcome))
    /\ UNCHANGED <<registry_and_history, platform_system, discovery, callers, dialog_pc, is_admin, worker_pc, signals,
                   tabs_shown>>

\* PluginManagementDialog.toggle_plugin on a listed plugin of the loaded window,
\* and its pluginToggled slot
TogglePlugin(name, enabled, outcome) ==
    /\ name \in Keys(plugins)
    /\ tabs_shown
    /\ CallsBelowBound
    /\ IF enabled THEN enable_plugin(name) ELSE disable_plugin(name)
    /\ SetUI(on_plugin_toggled(UI, name, enabled, outcome))
    /\ UNCHANGED <<history, platform_system, discovery, callers, dialog_pc, is_admin, worker_pc, signals, tabs_shown>>

WindowNext ==
    \/ \E cls \in WindowClasses : WorkerRegisters(cls)
    \/ WorkerEmits
    \/ WorkerFails
    \/ \E outcome \in FactoryOutcomes : DeliverAddTab(outcome)
    \/ DeliverTerminal
    \/ \E index \in 0..(Len(tabs) - 1), outcome \in FactoryOutcomes : SelectTab(index, outcome)
    \/ \E name \in ValidNames, enabled \in BOOLEAN, outcome \in FactoryOutcomes :
            TogglePlugin(name, enabled, outcome)

SpecWindow == WindowInit /\ [][WindowNext]_vars

(***************************************************************************)
(* The same window with the plugin management dialog in use while the      *)
(* worker is still discovering or its signals are still queued: the menu   *)
(* action that opens the dialog is enabled from MainWindow.__init__ on.    *)
(***************************************************************************)
\* PluginManagementDialog.toggle_plugin before the tab strip is shown, and its
\* pluginToggled slot
ToggleWhileLoading(name, enabled, outcome) ==
    /\ name \in Keys(plugins)
    /\ ~tabs_shown
    /\ CallsBelowBound
    /\ IF enabled THEN enable_plugin(name) ELSE disable_plugin(name)
    /\ SetUI(on_plugin_toggled(UI, name, enabled, outcome))
    /\ UNCHANGED <<history, platform_system, discovery, callers, dialog_pc, is_admin, worker_pc, signals, tabs_shown>>

LoadingNext ==
    \/ WindowNext
    \/ \E name \in ValidNames, enabled \in BOOLEAN, outcome \in FactoryOutcomes :
            ToggleWhileLoading(name, enabled, outcome)

SpecLoading == WindowInit /\ [][LoadingNext]_vars

(***************************************************************************)
(* The start of the window up to the shown tab strip: the worker thread,   *)
(* its signals and their slots, with plugins that are disabled by default. *)
(***************************************************************************)
\* the TabPlugin subclasses discovery finds in a start of the window
StartupClasses ==
    {c \in PluginClasses :
        /\ c.tab_name \in ValidNames
        /\ c.supported_platforms = {Windows, Linux}
        /\ c.plugin_version = "1.0.0"
        /\ c.requires_admin = FALSE}

\* TabLoaderThread.run: an exception inside the loop, after k add_tab.emit calls
WorkerFailsEmitting(k) ==
    /\ worker_pc = "discovering"
    /\ k \in 1..Len(get_enabled_plugins)
    /\ worker_pc' = "failed"
    /\ signals' = signals \o AddTabSignals(k) \o <<ErrorSignal("boom")>>
    /\ UNCHANGED <<registry_and_history, platform_system, discovery, callers, dialog_pc, is_admin, tabs, current_index,
                   loaded_tabs, is_loading_tab, factory_calls, tabs_shown>>

\* run() has returned and the thread ends: QThread emits its finished() signal.
\* TabLoaderThread declares finished = Signal() with the same name and
\* signature; whether the slot connected through that attribute is bound to
\* the signal QThread emits is decided by the binding, so both outcomes occur.
ThreadExits(bound_to_qthread_finished) ==
    /\ worker_pc \in {"done", "failed"}
    /\ worker_pc' = "exited"
    /\ signals' = IF bound_to_qthread_finished THEN Append(signals, FinishedSignal) ELSE signals
    /\ UNCHANGED <<registry_and_history, platform_system, discovery, callers, dialog_pc, is_admin, tabs, current_index,
                   loaded_tabs, is_loading_tab, factory_calls, tabs_shown>>

StartupNext ==
    \/ \E cls \in StartupClasses : WorkerRegisters(cls)
    \/ WorkerEmits
    \/ WorkerFails
    \/ \E k \in 1..NumNames : WorkerFailsEmitting(k)
    \/ \E bound_to_qthread_finished \in BOOLEAN : ThreadExits(bound_to_qthread_finished)
    \/ \E outcome \in FactoryOutcomes : DeliverAddTab(outcome)
    \/ DeliverTerminal

\* the event loop of the UI thread delivers every queued signal
\* the event loop has a queued add_tab call it can run (the guard of DeliverAddTab)
AddTabDeliverable ==
    /\ signals # <<>>
    /\ Head(signals).signal = "add_tab"
    /\ CallsBelowBound

\* a step in which the event loop takes the queued add_tab call off the queue
DeliversAddTab ==
    /\ signals # <<>>
    /\ Head(signals).signal = "add_tab"
    /\ signals' = Tail(signals)

\* the Qt event loop keeps running queued slot calls: weak fairness of both
\* deliveries, the one of DeliverAddTab written out with its guard
StartupFairness ==
    /\ ([]<>(~AddTabDeliverable) \/ []<><<DeliversAddTab>>_vars)
    /\ WF_vars(DeliverTerminal)

SpecStartup == WindowInit /\ [][StartupNext]_vars /\ StartupFairness

(***************************************************************************)
(* plugins/plugin_management.py: the management dialog on the UI thread,   *)
(* its toggles and its Reload, over the registry with the history of its   *)
(* register_plugin calls since the last clear().                           *)
(***************************************************************************)
\* the registrations of the session before the dialog reloads
StartupRegisters(cls, is_core) ==
    /\ dialog_pc = "idle"
    /\ RegisterLogged(cls, is_core)

\* PluginManagementDialog.toggle_plugin on a listed plugin (the dialog lists
\* get_all_plugins() and is not served while reload_plugins runs)
DialogToggles(name, state) ==
    /\ dialog_pc # "reloading"
    /\ name \in Keys(plugins)
    /\ IF state THEN Enable(name) ELSE Disable(name)

\* reload_plugins: plugin_registry.clear()
ReloadClears ==
    /\ dialog_pc # "reloading"
    /\ clear
    /\ core_regs' = EmptyMap
    /\ ext_regs' = {}
    /\ dialog_pc' = "reloading"
    /\ UNCHANGED <<dbd_regs, platform_system, discovery, callers, is_admin, tabs, current_index, loaded_tabs,
                   is_loading_tab, factory_calls, worker_pc, signals, tabs_shown>>

\* reload_plugins: discover_and_register_plugins() registers one discovered
\* class, is_core taken from the class's is_core_plugin attribute
ReloadRegisters(cls, is_core) ==
    /\ dialog_pc = "reloading"
    /\ RegisterLogged(cls, is_core)

\* reload_plugins: discovery is over, the dialog lists the plugins again
ReloadReturns ==
    /\ dialog_pc = "reloading"
    /\ dialog_pc' = "reloaded"
    /\ UNCHANGED <<registry_and_history, platform_system, discovery, callers, is_admin, tabs, current_index,
                   loaded_tabs, is_loading_tab, factory_calls, worker_pc, signals,
                   tabs_shown>>

ReloadNext ==
    \/ \E cls \in RegistryClasses, is_core \in BOOLEAN : StartupRegisters(cls, is_core)
    \/ \E name \in ValidNames, state \in BOOLEAN : DialogToggles(name, state)
    \/ ReloadClears
    \/ \E cls \in RegistryClasses, is_core \in BOOLEAN : ReloadRegisters(cls, is_core)
    \/ ReloadReturns

SpecReload == RegistryInit /\ [][ReloadNext]_vars

(***************************************************************************)
(* The window with the Reload of the management dialog.  reload_plugins    *)
(* runs on the UI thread, so no slot of the window runs before it returns; *)
(* it touches the registry only, not the tab widget nor loaded_tabs.       *)
(***************************************************************************)
\* a step of the window while reload_plugins is not running
WindowStep ==
    /\ dialog_pc # "reloading"
    /\ WindowNext

\* the Reload button of the dialog, opened from the loaded window
WindowReloadClears ==
    /\ tabs_shown
    /\ ReloadClears

WindowReloadNext ==
    \/ WindowStep
    \/ WindowReloadClears
    \/ \E cls \in WindowClasses : ReloadRegisters(cls, FALSE)
    \/ ReloadReturns

SpecWindowReload == WindowInit /\ [][WindowReloadNext]_vars

(***************************************************************************)
(* The discovery worker and the management dialog on one registry.  The    *)
(* registry has no lock: a register_plugin call of the worker thread is    *)
(* two steps, its entry and its return, and the UI thread runs between.    *)
(***************************************************************************)
\* TabLoaderThread.run: discovery calls plugin_registry.register_plugin
WorkerEntersRegister ==
    /\ worker_pc = "discovering"
    /\ worker_pc' = "registering"
    /\ UNCHANGED <<registry_and_history, platform_system, discovery, callers, dialog_pc, is_admin, tabs,
                   current_index, loaded_tabs, is_loading_tab, factory_calls, signals,
                   tabs_shown>>

\* TabLoaderThread.run: the register_plugin call writes the stores and returns
WorkerLeavesRegister(cls, is_core) ==
    /\ worker_pc = "registering"
    /\ register_plugin(cls, is_core)
    /\ core_regs' = IF Accepted(cls) /\ is_core
                    THEN MapSet(core_regs, cls.tab_name, cls) ELSE core_regs
    /\ ext_regs' = IF Accepted(cls) /\ ~is_core
                   THEN ext_regs \cup {cls.tab_name} ELSE ext_regs
    /\ worker_pc' = "discovering"
    /\ UNCHANGED <<dbd_regs, platform_system, discovery, callers, dialog_pc, is_admin, tabs, current_index,
                   loaded_tabs, is_loading_tab, factory_calls, signals, tabs_shown>>

RaceNext ==
    \/ WorkerEntersRegister
    \/ \E cls \in StartupClasses, is_core \in BOOLEAN : WorkerLeavesRegister(cls, is_core)
    \/ WorkerEmits
    \/ WorkerFails
    \/ \E name \in ValidNames, state \in BOOLEAN : DialogToggles(name, state)
    \/ ReloadClears
    \/ \E cls \in StartupClasses, is_core \in BOOLEAN : ReloadRegisters(cls, is_core)
    \/ ReloadReturns

SpecRace == WindowInit /\ [][RaceNext]_vars

(***************************************************************************)
(* plugins/discovery.py: a discovery pass over the installed entry points  *)
(* and the local plugins directory.  File names and source tags, which the *)
(* code tests by prefix and suffix, are sequences of characters.           *)
(***************************************************************************)
\* number of files a scanned directory holds at most
MaxFiles == 4

\* number of entries sys.path holds at most before a scan
MaxPathLen == 2

\* str.startswith
startswith(s, prefix) ==
    /\ Len(s) >= Len(prefix)
    /\ SubSeq(s, 1, Len(prefix)) = prefix

\* str.endswith
endswith(s, suffix) ==
    /\ Len(s) >= Len(suffix)
    /\ SubSeq(s, Len(s) - Len(suffix) + 1, Len(s)) = suffix

\* the elements of a list
Range(s) == {s[i] : i \in DOMAIN s}

\* list.remove(x): the list without its first x
ListRemove(s, x) ==
    LET first == CHOOSE i \in DOMAIN s : s[i] = x /\ \A j \in 1..(i - 1) : s[j] # x
    IN  SubSeq(s, 1, first - 1) \o SubSeq(s, first + 1, Len(s))

InitPy == <<"_", "_", "i", "n", "i", "t", "_", "_", ".", "p", "y">>
BasePy == <<"b", "a", "s", "e", ".", "p", "y">>
DiscoveryPy == <<"d", "i", "s", "c", "o", "v", "e", "r", "y", ".", "p", "y">>
CorePluginsPy == <<"c", "o", "r", "e", "_", "p", "l", "u", "g", "i", "n", "s", ".", "p", "y">>
PrivatePy == <<"_", "p", "r", "i", "v", "a", "t", "e", ".", "p", "y">>
MyPluginPy == <<"m", "y", "p", "l", "u", "g", "i", "n", ".", "p", "y">>
OtherPy == <<"o", "t", "h", "e", "r", ".", "p", "y">>
NotesTxt == <<"n", "o", "t", "e", "s", ".", "t", "x", "t">>
MyPluginPyc == <<"m", "y", "p", "l", "u", "g", "i", "n", ".", "p", "y", "c">>

\* the file names directories are made of
FileNames ==
    {InitPy, BasePy, DiscoveryPy, CorePluginsPy, PrivatePy, MyPluginPy, OtherPy, NotesTxt,
     MyPluginPyc}

\* the prefix of the source tag of a local plugin, f"local:{py_file.name}"
LocalPrefix == <<"l", "o", "c", "a", "l", ":">>

\* the source tag of an entry point plugin
EntryPointSource == <<"e", "n", "t", "r", "y", "_", "p", "o", "i", "n", "t">>

\* str(plugins_path.absolute())
PluginsDirStr == "/app/plugins"

\* the other entries sys.path may hold
OtherDirStr == "/usr/lib/python3"

\* module-level HAS_ENTRY_POINTS: importlib.metadata is importable
HAS_ENTRY_POINTS == TRUE

\* a class object found in a module or loaded from an entry point: what
\* _is_valid_plugin_class and register_discovered_plugins read of it
ClassObjects ==
    [is_class : BOOLEAN,            \* inspect.isclass(cls)
     is_subclass : BOOLEAN,         \* issubclass(cls, BaseTabPlugin)
     is_base : BOOLEAN,             \* cls is BaseTabPlugin
     callable_factory : BOOLEAN,    \* hasattr(cls, 'create_widget') and callable(cls.create_widget)
     module : FileNames,            \* file of the module named by cls.__module__
     is_core_plugin : BOOLEAN,      \* getattr(cls, 'is_core_plugin', False)
     attrs : PluginClasses]

\* variant: a class is accepted whatever its tab_name
IsValidPluginClass_AnyName(cls) ==
    /\ cls.is_class
    /\ cls.is_subclass
    /\ ~cls.is_base
    /\ cls.callable_factory

\* PluginDiscovery._is_valid_plugin_class: the value returned
IsValidPluginClass(cls) ==
    /\ cls.is_class
    /\ cls.is_subclass
    /\ ~cls.is_base
    /\ cls.callable_factory
    /\ cls.attrs.tab_name # ""
    /\ cls.attrs.tab_name # UnnamedTab

\* PluginDiscovery._find_plugin_classes_in_module, for the module of a file:
\* the classes among its members that are valid and defined in the module
find_plugin_classes_in_module(file) ==
    SelectSeq(file.module.members,
              LAMBDA obj : obj.is_class /\ IsValidPluginClass(obj) /\ obj.module = file.name)

\* plugins_path.glob("*.py")
python_files(dir) == SelectSeq(dir.files, LAMBDA f : endswith(f.name, <<".", "p", "y">>))

\* discover_local_plugins: the files to skip (system files, not plugins)
skip_files == {InitPy, BasePy, DiscoveryPy, CorePluginsPy}

\* variant: only the reserved names are skipped
IsSkipped_ReservedOnly(name) == name \in skip_files

\* discover_local_plugins: the test that skips a file
IsSkipped(name) == startswith(name, <<"_">>) \/ name \in skip_files

\* discover_local_plugins: the files the loop tries to load, in glob order
FilesToLoad(dir) ==
    IF dir.kind = "dir"
    THEN SelectSeq(python_files(dir), LAMBDA f : ~IsSkipped(f.name))
    ELSE <<>>

\* the entries one loaded file contributes (none when exec_module raises)
LocalEntries(file) ==
    IF file.module.raises
    THEN <<>>
    ELSE LET found == find_plugin_classes_in_module(file)
         IN  [i \in DOMAIN found |->
                [name |-> found[i].attrs.tab_name, cls |-> found[i],
                 source |-> LocalPrefix \o file.name]]

RECURSIVE Flatten(_)
\* the concatenation of a list of lists
Flatten(lists) == IF lists = <<>> THEN <<>> ELSE Head(lists) \o Flatten(Tail(lists))

\* PluginDiscovery.discover_local_plugins: the list returned
discover_local_plugins(dir) ==
    Flatten([i \in DOMAIN FilesToLoad(dir) |-> LocalEntries(FilesToLoad(dir)[i])])

\* discover_local_plugins: sys.path when the call returns.  The directory is
\* inserted at the front unless it is present, and in the finally clause its
\* first occurrence is removed if it is present
sys_path_after_scan(path, dir) ==
    IF dir.kind # "dir"
    THEN path
    ELSE LET during == IF PluginsDirStr \in Range(path) THEN path
                       ELSE <<PluginsDirStr>> \o path
         IN  IF PluginsDirStr \in Range(during) THEN ListRemove(during, PluginsDirStr)
             ELSE during

\* the entries one entry point contributes (none when ep.load() raises or the
\* object loaded is not a valid plugin class)
EntryPointEntries(ep) ==
    IF ep.raises \/ ~IsValidPluginClass(ep.obj)
    THEN <<>>
    ELSE <<[name |-> ep.name, cls |-> ep.obj, source |-> EntryPointSource]>>

\* PluginDiscovery.discover_entry_point_plugins: the list returned (empty when
\* entry_points() itself raises)
discover_entry_point_plugins ==
    IF ~HAS_ENTRY_POINTS \/ eps.raises
    THEN <<>>
    ELSE Flatten([i \in DOMAIN eps.items |-> EntryPointEntries(eps.items[i])])

\* variant: the local results are put before the entry point results
extend_LocalFirst(entry_point_plugins, local_plugins) ==
    local_plugins \o entry_point_plugins

\* discover_all_plugins: discovered_plugins.clear(), then extend() with the
\* entry point results and extend() with the local results
extend(entry_point_plugins, local_plugins) ==
    entry_point_plugins \o local_plugins

\* PluginDiscovery.discover_all_plugins
DiscoverAll ==
    /\ discovery_pc = "idle"
    /\ discovered_plugins' =
            extend(discover_entry_point_plugins, discover_local_plugins(plugins_dir))
    /\ loaded_files' = [i \in DOMAIN FilesToLoad(plugins_dir) |-> FilesToLoad(plugins_dir)[i].name]
    /\ sys_path' = sys_path_after_scan(sys_path, plugins_dir)
    /\ discovery_pc' = "discovered"
    /\ UNCHANGED <<registry_and_history, platform_system, window, callers, plugins_dir, eps,
                   registration_results, next_candidate>>

\* variant: an exception of register_plugin ends register_discovered_plugins
AfterCandidate_Propagates(exception) ==
    IF exception = "none" THEN "registering" ELSE "raised"

\* register_discovered_plugins: the loop body catches every exception of the
\* registration and the loop goes on
AfterCandidate(exception) == "registering"

\* register_discovered_plugins: the entry of registration_results for a candidate
RegistrationResult(candidate, exception) ==
    IF exception = "none"
    THEN [status |-> "success", detail |-> candidate.source]
    ELSE [status |-> "failed", detail |-> exception]

\* register_discovered_plugins: one round of the loop
RegisterCandidate ==
    /\ discovery_pc \in {"discovered", "registering"}
    /\ next_candidate <= Len(discovered_plugins)
    /\ LET candidate == discovered_plugins[next_candidate]
       IN  /\ register_plugin(candidate.cls.attrs, candidate.cls.is_core_plugin)
           /\ registration_results' =
                    DictSet(registration_results, candidate.name,
                            RegistrationResult(candidate, raised'))
    /\ discovery_pc' = AfterCandidate(raised')
    /\ next_candidate' = next_candidate + 1
    /\ UNCHANGED <<history, platform_system, window, callers, plugins_dir, eps, sys_path,
                   discovered_plugins, loaded_files>>

\* register_discovered_plugins: the loop is over, registration_results is returned
ReturnResults ==
    /\ discovery_pc \in {"discovered", "registering"}
    /\ next_candidate > Len(discovered_plugins)
    /\ discovery_pc' = "registered"
    /\ UNCHANGED <<registry_and_history, platform_system, window, callers, plugins_dir, eps,
                   sys_path, discovered_plugins, loaded_files, registration_results,
                   next_candidate>>

\* the lists of at most n elements of S without repetition
InjectiveSeqs(S, n) ==
    UNION {{f \in [1..k -> S] : \A i, j \in 1..k : f[i] = f[j] => i = j} : k \in 0..n}

\* a plugin class for the tab name, defined in the module of the file
PluginClassIn(name, tab_name, requires_admin) ==
    [is_class |-> TRUE, is_subclass |-> TRUE, is_base |-> FALSE, callable_factory |-> TRUE,
     module |-> name, is_core_plugin |-> FALSE,
     attrs |-> [tab_name |-> tab_name, supported_platforms |-> {Windows, Linux},
                plugin_version |-> "1.0.0", disabled_by_default |-> FALSE,
                requires_admin |-> requires_admin]]

\* a module that loads and defines one plugin class
GoodModule(name) ==
    [raises |-> FALSE, members |-> <<PluginClassIn(name, NamePool[1], FALSE)>>]

\* a module whose execution raises
BrokenModule == [raises |-> TRUE, members |-> <<>>]

\* a process about to run a discovery pass: empty registry, nothing discovered
BeforeDiscovery ==
    /\ platform_system = Linux
    /\ EmptyRegistry
    /\ NoWindow
    /\ discovered_plugins = <<>>
    /\ loaded_files = <<>>
    /\ registration_results = <<>>
    /\ discovery_pc = "idle"
    /\ next_candidate = 1

(***************************************************************************)
(* The scan of a directory of at most MaxFiles files, every one a module   *)
(* that loads.                                                             *)
(***************************************************************************)
FilterInit ==
    /\ BeforeDiscovery
    /\ NoCallers
    /\ eps = [raises |-> FALSE, items |-> <<>>]
    /\ sys_path = <<OtherDirStr>>
    /\ \E names \in InjectiveSeqs(FileNames, MaxFiles) :
            plugins_dir = [kind |-> "dir",
                           files |-> [i \in DOMAIN names |->
                                        [name |-> names[i], module |-> GoodModule(names[i])]]]

FilterNext == DiscoverAll

SpecFilter == FilterInit /\ [][FilterNext]_vars

(***************************************************************************)
(* The scan under every sys.path of at most MaxPathLen entries: of a path  *)
(* that does not exist, of a path that is a file, and of a directory whose *)
(* modules load or raise.                                                  *)
(***************************************************************************)
\* the lists of at most n elements of S
SeqsUpTo(S, n) == UNION {[1..k -> S] : k \in 0..n}

SearchPathInit ==
    /\ BeforeDiscovery
    /\ NoCallers
    /\ eps = [raises |-> FALSE, items |-> <<>>]
    /\ sys_path \in SeqsUpTo({PluginsDirStr, OtherDirStr}, MaxPathLen)
    /\ \/ plugins_dir \in {[kind |-> k, files |-> <<>>] : k \in {"missing", "file"}}
       \/ \E names \in InjectiveSeqs({MyPluginPy, OtherPy, BasePy}, MaxFiles) :
          \E modules \in [DOMAIN names -> {GoodModule(MyPluginPy), BrokenModule}] :
                plugins_dir = [kind |-> "dir",
                               files |-> [i \in DOMAIN names |->
                                            [name |-> names[i], module |-> modules[i]]]]

SearchPathNext == DiscoverAll

SpecSearchPath == SearchPathInit /\ [][SearchPathNext]_vars

(***************************************************************************)
(* A whole pass, discover_and_register_plugins on an empty registry: the   *)
(* entry points and the modules of the directory load or raise, and the    *)
(* classes they give are valid or not, compatible with the platform or not.*)
(***************************************************************************)
\* number of installed entry points of the group
MaxEntryPoints == 1

\* the files of the directory that are plugin modules
ModuleFiles == {MyPluginPy, OtherPy}

\* a subclass of BaseTabPlugin with a tab name and a create_widget method; the
\* classes of installed packages are told from the local ones by requires_admin
CandidateClasses(file, installed) ==
    {[is_class |-> TRUE, is_subclass |-> TRUE, is_base |-> FALSE, callable_factory |-> TRUE,
      module |-> file, is_core_plugin |-> FALSE,
      attrs |-> [tab_name |-> n, supported_platforms |-> p, plugin_version |-> v,
                 disabled_by_default |-> FALSE, requires_admin |-> installed]] :
        n \in ValidNames, p \in {{Windows, Linux}, {FreeBSD}}, v \in PluginVersions}

\* the modules a file of the directory may be: one that raises, or one class
ModulesOf(file) ==
    {BrokenModule} \cup {[raises |-> FALSE, members |-> <<c>>] : c \in CandidateClasses(file, FALSE)}

\* the installed entry points: ep.load() raises or returns a class
EntryPoints ==
    {[name |-> "ep", raises |-> TRUE, obj |-> PluginClassIn(NotesTxt, NamePool[1], TRUE)]}
    \cup {[name |-> "ep", raises |-> FALSE, obj |-> c] : c \in CandidateClasses(NotesTxt, TRUE)}

DiscoveryInit ==
    /\ BeforeDiscovery
    /\ NoCallers
    /\ sys_path = <<OtherDirStr>>
    /\ \/ eps = [raises |-> TRUE, items |-> <<>>]
       \/ \E items \in SeqsUpTo(EntryPoints, MaxEntryPoints) :
                eps = [raises |-> FALSE, items |-> items]
    /\ \E names \in InjectiveSeqs(ModuleFiles, MaxFiles) :
       \E modules \in [DOMAIN names -> UNION {ModulesOf(f) : f \in ModuleFiles}] :
            /\ \A i \in DOMAIN names : modules[i] \in ModulesOf(names[i])
            /\ plugins_dir = [kind |-> "dir",
                              files |-> [i \in DOMAIN names |->
                                           [name |-> names[i], module |-> modules[i]]]]

DiscoveryNext ==
    \/ DiscoverAll
    \/ RegisterCandidate
    \/ ReturnResults

SpecDiscovery == DiscoveryInit /\ [][DiscoveryNext]_vars

(***************************************************************************)
(* A pass over one module and at most one entry point, of every kind of    *)
(* class: a subclass of BaseTabPlugin or not, BaseTabPlugin itself, with   *)
(* or without a callable create_widget, with every tab_name, defined in    *)
(* the module or imported into it, marked as core plugin or not.           *)
(***************************************************************************)
\* number of classes among the members of the module
MaxMembers == 1

\* the classes inspect.getmembers(module, inspect.isclass) gives for the file
MemberObjects(file) ==
    {obj \in ClassObjects :
        /\ obj.is_class
        /\ obj.is_base => obj.is_subclass
        /\ obj.module \in {file, BasePy}
        /\ obj.attrs.supported_platforms = {Windows, Linux}
        /\ obj.attrs.plugin_version = "1.0.0"
        /\ ~obj.attrs.disabled_by_default
        /\ ~obj.attrs.requires_admin}

\* the objects ep.load() returns: a plugin class or something that is no class
LoadedObjects ==
    {obj \in ClassObjects :
        /\ obj.is_class = obj.is_subclass
        /\ ~obj.is_base
        /\ obj.callable_factory = obj.is_class
        /\ obj.module = NotesTxt
        /\ obj.is_class \/ ~obj.is_core_plugin
        /\ obj.attrs.tab_name \in {NamePool[1], NamePool[NumNames]}
        /\ obj.attrs.tab_name = NamePool[1] \/ obj.is_class
        /\ obj.attrs.supported_platforms = {Windows, Linux}
        /\ obj.attrs.plugin_version = "1.0.0"
        /\ ~obj.attrs.disabled_by_default
        /\ obj.attrs.requires_admin}

CollectInit ==
    /\ BeforeDiscovery
    /\ NoCallers
    /\ sys_path = <<OtherDirStr>>
    /\ \E items \in {<<>>} \cup {<<[name |-> NamePool[1], raises |-> FALSE, obj |-> obj]>> :
                                    obj \in LoadedObjects} :
            eps = [raises |-> FALSE, items |-> items]
    /\ \E members \in SeqsUpTo(MemberObjects(MyPluginPy), MaxMembers) :
            plugins_dir = [kind |-> "dir",
                           files |-> <<[name |-> MyPluginPy,
                                        module |-> [raises |-> FALSE, members |-> members]]>>]

CollectNext ==
    \/ DiscoverAll
    \/ RegisterCandidate
    \/ ReturnResults

SpecCollect == CollectInit /\ [][CollectNext]_vars

(***************************************************************************)
(* discover_and_register_all_plugins: the core plugin list of platforms/   *)
(* is loaded through sys.path, the core plugins are registered,            *)
(* then one pass runs over the external directory and one over the         *)
(* built-in directory, and the summaries of the two are merged.  A Python  *)
(* dict with string keys is a function on its keys.                        *)
(***************************************************************************)
\* the number of elements of the list that satisfy the test
Count(list, Test(_)) == Len(SelectSeq(list, Test))

\* PluginDiscovery.get_plugin_info_summary ('class' holds the class for its __name__)
get_plugin_info_summary ==
    [total_discovered |-> Len(discovered_plugins),
     entry_point_plugins |-> Count(discovered_plugins, LAMBDA p : p.source = EntryPointSource),
     local_plugins |-> Count(discovered_plugins, LAMBDA p : startswith(p.source, LocalPrefix)),
     plugins |-> [i \in DOMAIN discovered_plugins |->
                    [name |-> discovered_plugins[i].name,
                     source |-> discovered_plugins[i].source,
                     class |-> discovered_plugins[i].cls.attrs,
                     module |-> discovered_plugins[i].cls.module]]]

\* d.update(e)
update(d, e) == [k \in DOMAIN d \cup DOMAIN e |-> IF k \in DOMAIN e THEN e[k] ELSE d[k]]

\* d.get(key, default)
get(d, key, default) == IF key \in DOMAIN d THEN d[key] ELSE default

\* d[key] = value
put(d, key, value) == [k \in DOMAIN d \cup {key} |-> IF k = key THEN value ELSE d[k]]

\* discover_and_register_all_plugins: the merge of the built-in pass's summary
MergeSummaries(merged, builtin_summary) ==
    LET total == put(merged, "total_discovered",
                     get(merged, "total_discovered", 0)
                        + get(builtin_summary, "total_discovered", 0))
    IN  IF "local_plugins" \in DOMAIN total /\ "local_plugins" \in DOMAIN builtin_summary
        THEN put(total, "local_plugins",
                 total["local_plugins"] + builtin_summary["local_plugins"])
        ELSE put(total, "builtin_plugins", get(builtin_summary, "local_plugins", 0))

\* the classes get_core_plugins of platforms/ and of plugins/ return
CorePluginClasses ==
    {c \in RegistryClasses : /\ c.tab_name \in ValidNames
                             /\ c.supported_platforms = {Windows, Linux}
                             /\ c.plugin_version = "1.0.0"
                             /\ ~c.disabled_by_default}

\* parent_dir, the directory three levels above plugin_service.py
ParentDirStr == "/opt/gui"

\* discover_and_register_all_plugins: sys.path after the try block that loads
\* platforms.core_plugins.  parent_dir is inserted at the front unless it is
\* present; the removal stands after the import inside the try block, so it
\* runs only when the import and get_core_plugins() raised nothing
sys_path_after_platforms_import(path, import_ok) ==
    LET during == IF ParentDirStr \in Range(path) THEN path
                  ELSE <<ParentDirStr>> \o path
    IN  IF import_ok /\ ParentDirStr \in Range(during)
        THEN ListRemove(during, ParentDirStr)
        ELSE during

\* the try block that loads the core plugin list of platforms/: the import
\* succeeds or raises, and the exception is logged
ServiceLoadsPlatformCore(import_ok) ==
    /\ service_pc = "platforms"
    /\ sys_path' = sys_path_after_platforms_import(sys_path, import_ok)
    /\ service_pc' = "core"
    /\ UNCHANGED <<registry_and_history, platform_system, window, returned,
                   gui_plugins_dir, external_summary, summary, validation, last_call,
                   plugins_dir, eps, discovered_plugins, loaded_files,
                   registration_results, discovery_pc, next_candidate>>

\* one round of the loop over all_core_plugins; an exception is logged
ServiceRegistersCore(cls) ==
    /\ service_pc = "core"
    /\ register_plugin(cls, TRUE)
    /\ UNCHANGED <<history, platform_system, discovery, window, callers>>

\* the loop over all_core_plugins is over
ServiceStartsDiscovery ==
    /\ service_pc = "core"
    /\ service_pc' = "external"
    /\ UNCHANGED <<registry_and_history, platform_system, discovery, window, returned,
                   gui_plugins_dir, external_summary, summary, validation, last_call>>

\* a step of discover(external_plugins_dir) or of discover(gui_plugins_dir)
ServicePass ==
    /\ service_pc \in {"external", "builtin"}
    /\ \/ DiscoverAll
       \/ RegisterCandidate
       \/ ReturnResults

\* discover(external_plugins_dir) returns: summary.update(external_summary); the
\* PluginDiscovery of the built-in pass is made
ExternalPassReturns ==
    /\ service_pc = "external"
    /\ discovery_pc = "registered"
    /\ external_summary' = get_plugin_info_summary
    /\ summary' = update(summary, external_summary')
    /\ service_pc' = "builtin"
    /\ plugins_dir' = gui_plugins_dir
    /\ discovered_plugins' = <<>>
    /\ loaded_files' = <<>>
    /\ registration_results' = <<>>
    /\ next_candidate' = 1
    /\ discovery_pc' = "idle"
    /\ UNCHANGED <<registry_and_history, platform_system, window, returned,
                   gui_plugins_dir, validation, last_call, eps, sys_path>>

\* discover(gui_plugins_dir) returns: its summary is merged and the result returned
BuiltinPassReturns ==
    /\ service_pc = "builtin"
    /\ discovery_pc = "registered"
    /\ summary' = MergeSummaries(summary, get_plugin_info_summary)
    /\ service_pc' = "returned"
    /\ UNCHANGED <<registry_and_history, platform_system, discovery, window, returned,
                   gui_plugins_dir, external_summary, validation, last_call>>

\* the directories of this section: at most MaxFiles plugin modules that load or raise
ServiceDirs ==
    UNION {{[kind |-> "dir",
             files |-> [i \in DOMAIN names |->
                          [name |-> names[i],
                           module |-> IF loads[i] THEN GoodModule(names[i]) ELSE BrokenModule]]] :
                loads \in [DOMAIN names -> BOOLEAN]} :
           names \in InjectiveSeqs(ModuleFiles, MaxFiles)}

\* the installed entry points of this section: a class of an installed package
\* (told from the classes of the static core list by requires_admin) that sets
\* the is_core_plugin attribute or inherits it from CoreTabPlugin, or does not
ServiceEntryPoints ==
    {[name |-> "ep", raises |-> FALSE,
      obj |-> [PluginClassIn(NotesTxt, NamePool[2], TRUE) EXCEPT !.is_core_plugin = marker]] :
        marker \in BOOLEAN}

ServiceInit ==
    /\ BeforeDiscovery
    /\ sys_path \in {<<OtherDirStr>>, <<OtherDirStr, ParentDirStr>>}
    /\ \E items \in SeqsUpTo(ServiceEntryPoints, MaxEntryPoints) :
            eps = [raises |-> FALSE, items |-> items]
    /\ plugins_dir \in ServiceDirs
    /\ gui_plugins_dir \in ServiceDirs
    /\ returned = [getter |-> "none", id |-> "none", value |-> <<>>]
    /\ service_pc = "platforms"
    /\ external_summary = EmptyMap
    /\ summary = [total_discovered |-> 0]
    /\ validation = NotCalled
    /\ last_call = NoCall

ServiceNext ==
    \/ \E import_ok \in BOOLEAN : ServiceLoadsPlatformCore(import_ok)
    \/ \E cls \in CorePluginClasses : ServiceRegistersCore(cls)
    \/ ServiceStartsDiscovery
    \/ ServicePass
    \/ ExternalPassReturns
    \/ BuiltinPassReturns

SpecService == ServiceInit /\ [][ServiceNext]_vars

(***************************************************************************)
(* Properties of the registry.                                             *)
(***************************************************************************)
\* the three field invariants of a descriptor, read off its fields
ValidDescriptor(cls) ==
    /\ cls.tab_name # ""
    /\ cls.tab_name # UnnamedTab
    /\ cls.supported_platforms # {}
    /\ cls.plugin_version # ""

\* the descriptor's supportedPlatforms holds the capitalized current platform name
OnCurrentPlatform(cls) == Capitalize(platform_system) \in cls.supported_platforms

\* C1 (core precedence): whenever a valid, compatible core descriptor and a
\* valid, compatible external descriptor of one name have both been registered
\* since the registry was last emptied, in either order, the allPlugins entry of
\* the name is the core descriptor registered last and the name is absent from
\* externalPlugins.
C1_CorePrecedence ==
    \A n \in (DOMAIN core_regs) \cap ext_regs :
        /\ n \in Keys(plugins)
        /\ Get(plugins, n) = core_regs[n]
        /\ n \in DOMAIN core_plugins
        /\ n \notin DOMAIN external_plugins

\* a core and an external descriptor of one name were registered, and other
\* names are held as external plugins
C1_Witness ==
    /\ \E n \in (DOMAIN core_regs) \cap ext_regs : Get(plugins, n) = core_regs[n]
    /\ DOMAIN external_plugins # {}

\* C2: every name of corePlugins or externalPlugins is a key of allPlugins, the
\* two have no name in common, and each maps its names to the descriptor
\* allPlugins maps them to.
C2_SubsetsPartition ==
    /\ (DOMAIN core_plugins) \cup (DOMAIN external_plugins) \subseteq Keys(plugins)
    /\ (DOMAIN core_plugins) \cap (DOMAIN external_plugins) = {}
    /\ \A n \in DOMAIN core_plugins : core_plugins[n] = Get(plugins, n)
    /\ \A n \in DOMAIN external_plugins : external_plugins[n] = Get(plugins, n)

\* both subsets are populated and a registered name is disabled
C2_Witness ==
    /\ DOMAIN core_plugins # {}
    /\ DOMAIN external_plugins # {}
    /\ disabled_plugins \cap Keys(plugins) # {}

C4_ValidationGate ==
    /\ \A i \in DOMAIN plugins : ValidDescriptor(plugins[i].cls) /\ plugins[i].name = plugins[i].cls.tab_name
    /\ \A n \in DOMAIN core_plugins : ValidDescriptor(core_plugins[n])
    /\ \A n \in DOMAIN external_plugins : ValidDescriptor(external_plugins[n])

\* a register call was rejected by validation while the registry held plugins
C4_Witness == raised = "ValueError" /\ plugins # <<>>

\* C5: in every reachable state, a register call on a descriptor that fails
\* validation can only raise ValueError and leave allPlugins, corePlugins,
\* externalPlugins, disabledNames and seenNames as they were; and every step
\* that raises ValueError leaves the five unchanged.
C5_FailedRegisterChangesNothing ==
    /\ [](\A cls \in RegistryClasses, is_core \in BOOLEAN :
            ~ValidDescriptor(cls) =>
                ~ENABLED (/\ register_plugin(cls, is_core)
                          /\ ~(raised' = "ValueError" /\ UNCHANGED registry)))
    /\ [][raised' = "ValueError" => UNCHANGED registry]_vars

\* a register call was rejected while all five components were non-empty
C5_Witness ==
    /\ raised = "ValueError"
    /\ DOMAIN core_plugins # {}
    /\ DOMAIN external_plugins # {}
    /\ disabled_plugins # {}
    /\ seen_plugins # {}

\* C6 (platform gate): no descriptor whose supportedPlatforms lacks the
\* capitalized current platform name is ever held, and in every reachable state
\* a register call on such a (valid) descriptor can only return without an
\* error and without changing the registry.
C6_PlatformGate ==
    /\ \A i \in DOMAIN plugins : OnCurrentPlatform(plugins[i].cls)
    /\ \A cls \in RegistryClasses, is_core \in BOOLEAN :
            (ValidDescriptor(cls) /\ ~OnCurrentPlatform(cls)) =>
                ~ENABLED (/\ register_plugin(cls, is_core)
                          /\ ~(raised' = "none" /\ UNCHANGED registry))

\* the registry holds plugins on a platform that some valid descriptors exclude
C6_Witness ==
    /\ plugins # <<>>
    /\ raised = "ValueError"
    /\ \E cls \in RegistryClasses : ValidDescriptor(cls) /\ ~OnCurrentPlatform(cls)

\* C7 as claimed: the step that stores a default-disabled descriptor for the
\* first time leaves its name in disabledNames, and registering it again later
\* never disables its name.
C7_AsClaimed ==
    [][/\ \A c \in dbd_regs' \ dbd_regs : c.tab_name \in disabled_plugins'
       /\ disabled_plugins' # disabled_plugins =>
            ~ \E c \in dbd_regs, is_core \in BOOLEAN : register_plugin(c, is_core)]_vars

\* C7 (default-disabled-once), amended: a register call that stores a name
\* for the first time in the session (the name is not in seenNames) with a
\* descriptor that has disabledByDefault = true leaves the name in
\* disabledNames; a register call on a name already in seenNames never changes
\* disabledNames, so a name the user enabled stays enabled when it is
\* registered again; and seenNames never shrinks, not even on clear.
C7_DefaultDisabledOnce ==
    /\ [](\A cls \in RegistryClasses, is_core \in BOOLEAN :
            /\ (cls.tab_name \notin seen_plugins /\ cls.disabled_by_default) =>
                    ~ENABLED (/\ register_plugin(cls, is_core)
                              /\ cls.tab_name \in Keys(plugins')
                              /\ cls.tab_name \notin disabled_plugins')
            /\ cls.tab_name \in seen_plugins =>
                    ~ENABLED (/\ register_plugin(cls, is_core)
                              /\ disabled_plugins' # disabled_plugins))
    /\ [][seen_plugins \subseteq seen_plugins']_vars

\* a default-disabled plugin is registered, enabled, in a registry that was
\* emptied and filled again
C7_Witness ==
    \E i \in DOMAIN plugins :
        /\ plugins[i].cls.disabled_by_default
        /\ plugins[i].name \notin disabled_plugins
        /\ seen_plugins \ Keys(plugins) # {}


(***************************************************************************)
(* Properties of the tab lifecycle.                                        *)
(***************************************************************************)
\* the lifecycle state a tab is in, read off the widget it shows
TabState(tab) ==
    CASE tab.widget.kind = "LoadingPlaceholder" -> "Placeholder"
      [] tab.widget.kind = "PluginWidget" -> "Ready"
      [] tab.widget.kind = "AdminRequiredPlaceholder" -> "AdminBlocked"
      [] tab.widget.kind = "ErrorPlaceholder" -> "Error"

Materialized == {"Ready", "AdminBlocked", "Error"}

\* C8: between the add_tab that makes a tab's entry and the removal of the
\* entry, create_widget is called at most once for the tab (never for a tab
\* that was not selected or is admin-blocked), however often the tab is
\* selected.
C8_FactoryOnce ==
    \A n \in DOMAIN loaded_tabs : factory_calls[n] <= 1

\* C9: a selection of a tab in state Ready, AdminBlocked or Error calls no
\* factory and leaves the tabs, their contents and the cached instances as
\* they were.
C9_SelectingMaterializedIsNoOp ==
    [][\A index \in 0..(Len(tabs) - 1), outcome \in FactoryOutcomes :
            (TabState(tabs[index + 1]) \in Materialized /\ SelectTab(index, outcome))
                => /\ factory_calls' = factory_calls
                   /\ tabs' = tabs
                   /\ loaded_tabs' = loaded_tabs]_vars

\* the admin requirement in the words of the claim
AdminRequired(cls) == platform_system = Windows /\ cls.requires_admin /\ ~is_admin

RaisedMessages == {o.message : o \in {x \in FactoryOutcomes : x.raises}}

\* a user selection of the Placeholder tab at index whose factory is to be called
SelectsForFactory(index, outcome) ==
    /\ current_index # index
    /\ current_index' = index
    /\ TabState(tabs[index + 1]) = "Placeholder"
    /\ ~AdminRequired(loaded_tabs[tabs[index + 1].text].plugin_class)
    /\ SelectTab(index, outcome)

LoadedInStep ==
    {n \in DOMAIN loaded_tabs' :
        IF n \in DOMAIN loaded_tabs /\ loaded_tabs'[n].plugin_class = loaded_tabs[n].plugin_class
                                    /\ factory_calls'[n] >= factory_calls[n]
        THEN \/ factory_calls'[n] > factory_calls[n]
             \/ /\ loaded_tabs[n].instance = NoInstance
                /\ loaded_tabs'[n].instance # NoInstance
        ELSE factory_calls'[n] > 0 \/ loaded_tabs'[n].instance # NoInstance}

\* the window while a load is in progress
UILoading == [UI EXCEPT !.loading = TRUE]

\* C12: no handler run loads more than one tab; a currentChanged that arrives
\* while a load is in progress (the guard is set) calls no factory and
\* changes nothing; and the guard is released whenever a handler has
\* returned, whether the load ended in Ready, AdminBlocked or Error.
C12_ReentrancyGuard ==
    /\ [](~is_loading_tab)
    /\ [](\A index \in (-1)..(Len(tabs) - 1), outcome \in FactoryOutcomes :
            on_tab_changed(UILoading, index, outcome) = UILoading)
    /\ [][Cardinality(LoadedInStep) <= 1]_vars

\* loads have ended in Error and in AdminBlocked, each with another tab whose
\* currentChanged arrived during the load, and the guard is released
C12_Witness ==
    /\ ~is_loading_tab
    /\ \E i, j \in DOMAIN tabs :
        /\ TabState(tabs[i]) = "Error"
        /\ TabState(tabs[j]) = "AdminBlocked"


\* the tabs named name
TabsNamed(strip, name) == {i \in DOMAIN strip : strip[i].text = name}

\* a pluginToggled(name, enabled) handled by the window
Toggles(name, enabled, outcome) ==
    \/ TogglePlugin(name, enabled, outcome)
    \/ ToggleWhileLoading(name, enabled, outcome)

\* C13: after a plugin is disabled no tab carries its name and the window
\* holds no record of it, whatever state its tab was in; after it is enabled
\* again exactly one tab carries its name, with a fresh record: the tab is a
\* Placeholder without a cached instance, or it became the current tab and
\* was loaded anew in the same step.
C13_DisableForgetsEnableReadds ==
    [][\A name \in ValidNames, outcome \in FactoryOutcomes :
        /\ Toggles(name, FALSE, outcome)
            => /\ TabsNamed(tabs', name) = {}
               /\ name \notin DOMAIN loaded_tabs'
        /\ (Toggles(name, TRUE, outcome) /\ name \notin DOMAIN loaded_tabs)
            => /\ Cardinality(TabsNamed(tabs', name)) = 1
               /\ name \in DOMAIN loaded_tabs'
               /\ \A i \in TabsNamed(tabs', name) :
                    IF i = current_index' + 1
                    THEN /\ TabState(tabs'[i]) \in Materialized
                         /\ name \in LoadedInStep
                    ELSE /\ TabState(tabs'[i]) = "Placeholder"
                         /\ loaded_tabs'[name].instance = NoInstance
                         /\ factory_calls'[name] = 0]_vars


(***************************************************************************)
(* Properties of the start of the window.                                  *)
(***************************************************************************)
Terminal(sig) == sig.signal \in {"finished", "error"}

\* the signals a step has emitted (a delivery takes the head of the queue)
EmittedInStep ==
    IF Len(signals') >= Len(signals)
    THEN SubSeq(signals', Len(signals) + 1, Len(signals'))
    ELSE <<>>

\* C14: the step in which run() ends emits exactly one terminal signal,
\* finished or error, as the last signal of the run, and no step after it
\* emits a signal (neither a second terminal signal nor a tab found).
C14_SignalProtocol ==
    [][/\ (worker_pc = "discovering" /\ worker_pc' # "discovering")
            => /\ EmittedInStep # <<>>
               /\ Terminal(EmittedInStep[Len(EmittedInStep)])
               /\ \A i \in 1..(Len(EmittedInStep) - 1) : ~Terminal(EmittedInStep[i])
       /\ worker_pc # "discovering" => EmittedInStep = <<>>]_vars


\* C15: once run() has ended, with finished or with error, the queued signals
\* are delivered and the tab strip is shown (the loading widget hidden); the
\* slot of the error signal shows the strip and leaves the tabs added so far
\* and their records as they are.
C15_TabStripShown ==
    /\ (worker_pc \in {"done", "failed", "exited"}) ~> tabs_shown
    /\ [][(signals # <<>> /\ Head(signals).signal = "error" /\ DeliverTerminal)
            => /\ tabs_shown'
               /\ tabs' = tabs
               /\ loaded_tabs' = loaded_tabs
               /\ current_index' = current_index]_vars

\* run() ended with error after a tab was added, and the strip is shown with the tab
C15_Witness ==
    /\ worker_pc = "failed"
    /\ signals = <<>>
    /\ tabs_shown
    /\ tabs # <<>>


\* the add_tab signals among the signals a step has emitted
AddTabsEmitted == SelectSeq(EmittedInStep, LAMBDA sig : sig.signal = "add_tab")

\* the names that are registered and not in disabled_plugins
RegisteredEnabledNames == Keys(plugins) \ disabled_plugins

\* the step emits add_tab once for each registered enabled name and for no other
EmitsOncePerEnabledName ==
    /\ {AddTabsEmitted[i].tab_name : i \in DOMAIN AddTabsEmitted} = RegisteredEnabledNames
    /\ Len(AddTabsEmitted) = Cardinality(RegisteredEnabledNames)
    /\ \A i \in DOMAIN AddTabsEmitted :
            AddTabsEmitted[i].plugin_class = Get(plugins, AddTabsEmitted[i].tab_name)

\* the step is the add_tab slot run for the oldest queued signal
RunsAddTabSlot == \E outcome \in FactoryOutcomes : DeliverAddTab(outcome)

\* the step appends one tab named after the signalled plugin and leaves the others
AppendsOneTab ==
    /\ Len(tabs') = Len(tabs) + 1
    /\ SubSeq(tabs', 1, Len(tabs)) = tabs
    /\ tabs'[Len(tabs')].text = Head(signals).tab_name

WorkerStep ==
    \/ worker_pc' # worker_pc
    \/ /\ worker_pc = "discovering"
       /\ signals' = signals
       /\ \E cls \in PluginClasses : WorkerRegisters(cls)

\* a slot run by the UI thread: the add_tab slot, a selection, a plugin toggle
UIHandlerStep ==
    \/ \E outcome \in FactoryOutcomes : DeliverAddTab(outcome)
    \/ \E index \in 0..(Len(tabs) - 1), outcome \in FactoryOutcomes : SelectTab(index, outcome)
    \/ \E name \in ValidNames, enabled \in BOOLEAN, outcome \in FactoryOutcomes :
            Toggles(name, enabled, outcome)

\* the names whose create_widget was called in the step
CalledInStep ==
    {n \in DOMAIN factory_calls' :
        factory_calls'[n] > (IF n \in DOMAIN factory_calls THEN factory_calls[n] ELSE 0)}

\* C17: create_widget is called only in steps that are slots of the UI thread,
\* and there only by on_tab_changed for the tab that is current when the slot
\* returns; a step of the discovery worker calls no factory and touches
\* neither the tabs nor their records.
C17_FactoryOnUIThread ==
    [][/\ CalledInStep # {}
            => /\ UIHandlerStep
               /\ ~WorkerStep
               /\ \A n \in CalledInStep :
                    /\ current_index' \in 0..(Len(tabs') - 1)
                    /\ tabs'[current_index' + 1].text = n
       /\ WorkerStep
            => /\ factory_calls' = factory_calls
               /\ tabs' = tabs
               /\ loaded_tabs' = loaded_tabs]_vars

\* discovery has run to its end without a call, and a factory was called by a
\* later selection of a tab that is not the first
C17_Witness ==
    /\ worker_pc = "done"
    /\ tabs_shown
    /\ current_index >= 1
    /\ factory_calls[tabs[current_index + 1].text] >= 1


(***************************************************************************)
(* Properties of the dialog's Reload.                                      *)
(***************************************************************************)
\* the names registered since the last clear() by calls on a valid class that
\* is compatible with the platform (the freshly discovered set)
FreshlyRegistered == ext_regs \cup DOMAIN core_regs

\* C19: from the clear() of a reload on, through its rediscovery and after
\* it, the registry holds exactly the names registered since that clear (the
\* classes discovery found that are valid and fit the platform), a name
\* registered as core with the class last registered as core; clear() itself
\* leaves no entry in any of the three stores.
C19_ReloadClearsState ==
    /\ [](dialog_pc \in {"reloading", "reloaded"}
            => /\ Keys(plugins) = FreshlyRegistered
               /\ DOMAIN core_plugins \cup DOMAIN external_plugins = FreshlyRegistered
               /\ DOMAIN core_plugins = DOMAIN core_regs
               /\ \A n \in DOMAIN core_regs :
                    /\ Get(plugins, n) = core_regs[n]
                    /\ core_plugins[n] = core_regs[n])
    /\ [][ReloadClears => /\ plugins' = <<>>
                          /\ core_plugins' = EmptyMap
                          /\ external_plugins' = EmptyMap]_vars

\* a reload has returned with a plugin rediscovered while a plugin that was
\* registered before the clear was not found again and is gone
C19_Witness ==
    /\ dialog_pc = "reloaded"
    /\ plugins # <<>>
    /\ seen_plugins \ Keys(plugins) # {}


\* a step of a reload, its clear() or one registration of its rediscovery:
\* the steps that leave reload_plugins running
ReloadStep == dialog_pc' = "reloading"

\* C20: clear() empties _plugins, _core_plugins and _external_plugins and
\* leaves _disabled_plugins and _seen_plugins as they are; and no step of a
\* reload, the clear or a registration of the rediscovery, changes whether a
\* name the session has seen (every name the dialog could toggle) is
\* disabled, so after the reload such a name is enabled or disabled as the
\* user left it.
C20_ChoicesSurviveReload ==
    /\ [](\A i \in DOMAIN plugins : plugins[i].name \in seen_plugins)
    /\ [][ReloadClears => /\ plugins' = <<>>
                          /\ core_plugins' = EmptyMap
                          /\ external_plugins' = EmptyMap
                          /\ disabled_plugins' = disabled_plugins
                          /\ seen_plugins' = seen_plugins]_vars
    /\ [][ReloadStep => \A n \in seen_plugins :
                            (n \in disabled_plugins') <=> (n \in disabled_plugins)]_vars

\* after a reload a plugin that is disabled by default is registered again and
\* enabled, as the user had set it, and another plugin is registered again and
\* disabled, as the user had set it
C20_Witness ==
    /\ dialog_pc = "reloaded"
    /\ \E i \in DOMAIN plugins :
            /\ plugins[i].cls.disabled_by_default
            /\ plugins[i].name \notin disabled_plugins
    /\ \E i \in DOMAIN plugins :
            /\ ~plugins[i].cls.disabled_by_default
            /\ plugins[i].name \in disabled_plugins


(***************************************************************************)
(* Properties of the registry shared by the worker and the dialog.         *)
(***************************************************************************)
\* a clear() or register_plugin call of the UI thread (the dialog's Reload)
UIThreadWritesRegistry ==
    \/ ReloadClears
    \/ \E cls \in StartupClasses, is_core \in BOOLEAN : ReloadRegisters(cls, is_core)

\* C18: the UI thread runs no clear() and no register_plugin call while the
\* worker thread is inside a register_plugin call.
C18_RegistrySerialized ==
    [][(worker_pc = "registering") => ~UIThreadWritesRegistry]_vars


(***************************************************************************)
(* Properties of a discovery pass.                                         *)
(***************************************************************************)
\* the names of the files of the directory
DirNames == {plugins_dir.files[i].name : i \in DOMAIN plugins_dir.files}

\* the name ends with ".py", does not begin with "_" and is none of
\* __init__.py, base.py, discovery.py, core_plugins.py
IsPluginFileName(name) ==
    /\ Len(name) >= 3
    /\ name[Len(name) - 2] = "." /\ name[Len(name) - 1] = "p" /\ name[Len(name)] = "y"
    /\ name[1] # "_"
    /\ name \notin {InitPy, BasePy, DiscoveryPy, CorePluginsPy}

\* C21: after a scan of a directory the files that were loaded are exactly
\* its files whose name ends with ".py", does not begin with an underscore
\* and is not __init__.py, base.py, discovery.py or core_plugins.py, each
\* loaded once, and every local plugin found comes from a loaded file; of the
\* directory {__init__.py, base.py, _private.py, myplugin.py} only myplugin.py
\* is loaded.
C21_FileFilter ==
    discovery_pc = "discovered"
        => /\ Range(loaded_files) = {n \in DirNames : IsPluginFileName(n)}
           /\ Len(loaded_files) = Cardinality(Range(loaded_files))
           /\ \A i \in DOMAIN discovered_plugins :
                \E n \in Range(loaded_files) :
                    discovered_plugins[i].source = LocalPrefix \o n
           /\ DirNames = {InitPy, BasePy, PrivatePy, MyPluginPy}
                => loaded_files = <<MyPluginPy>>

\* the directory of __init__.py, base.py, _private.py and myplugin.py was
\* scanned and its one plugin found in myplugin.py
C21_Witness ==
    /\ discovery_pc = "discovered"
    /\ DirNames = {InitPy, BasePy, PrivatePy, MyPluginPy}
    /\ loaded_files = <<MyPluginPy>>
    /\ Len(discovered_plugins) = 1
    /\ discovered_plugins[1].source = LocalPrefix \o MyPluginPy


Discovered(cls, source) ==
    \E j \in DOMAIN discovered_plugins :
        /\ discovered_plugins[j].cls = cls
        /\ discovered_plugins[j].source = source

\* C23: no exception leaves discover_all_plugins or register_discovered_plugins,
\* and a failure drops the failing item only.  Every entry point whose load()
\* returns a valid class is a candidate whatever the other entry points did,
\* every plugin file is loaded and every valid class of a module that loads
\* is a candidate whatever the other files did (entry_points() raising costs
\* the entry points only), and the registration loop attempts every
\* candidate: each has its entry in registration_results, and every candidate
\* that is valid and compatible with the platform is registered although an
\* earlier candidate raised ValueError.
C23_FailuresContained ==
    /\ discovery_pc # "raised"
    /\ discovery_pc # "idle"
        => /\ \A i \in DOMAIN eps.items :
                (~eps.raises /\ ~eps.items[i].raises /\ IsValidPluginClass(eps.items[i].obj))
                    => Discovered(eps.items[i].obj, EntryPointSource)
           /\ \A i \in DOMAIN plugins_dir.files :
                LET file == plugins_dir.files[i]
                IN  /\ file.name \in Range(loaded_files)
                    /\ ~file.module.raises
                        => \A m \in Range(file.module.members) :
                                (IsValidPluginClass(m) /\ m.module = file.name)
                                    => Discovered(m, LocalPrefix \o file.name)
           /\ next_candidate <= Len(discovered_plugins) + 1
           /\ \A j \in 1..(next_candidate - 1) :
                LET candidate == discovered_plugins[j]
                IN  /\ candidate.name \in Keys(registration_results)
                    /\ Accepted(candidate.cls.attrs)
                        => candidate.cls.attrs.tab_name \in Keys(plugins)
    /\ discovery_pc = "registered" => next_candidate = Len(discovered_plugins) + 1

\* a pass has returned: an entry point failed to load, the class of the first
\* file was rejected with ValueError, and the class of the second file, found
\* and registered after it, is in the registry
C23_Witness ==
    /\ discovery_pc = "registered"
    /\ \E i \in DOMAIN eps.items : eps.items[i].raises
    /\ Len(discovered_plugins) = 2
    /\ FailsValidation(discovered_plugins[1].cls.attrs)
    /\ Get(registration_results, discovered_plugins[1].name).status = "failed"
    /\ discovered_plugins[2].cls.attrs.tab_name \in Keys(plugins)
    /\ Get(registration_results, discovered_plugins[2].name).status = "success"


\* the candidate is an external one that reaches the conflict handling of
\* register_plugin: its class is valid and compatible with the platform
ExternalCandidate(candidate) ==
    /\ ~candidate.cls.is_core_plugin
    /\ Accepted(candidate.cls.attrs)

\* C24: the candidate list of a pass is its entry point results followed by
\* its local results, and the loop registers the candidates by rising index,
\* one per round, touching no entry of another name; so when an entry point
\* candidate and a local candidate collide (same name, both external, both
\* valid and compatible, so that both reach the conflict handling), the entry
\* of the name when the pass returns is the class of the local one that was
\* registered last.
C24_RegistrationOrder ==
    /\ [](discovery_pc # "idle"
            => /\ discovered_plugins =
                    SelectSeq(discovered_plugins, LAMBDA c : c.source = EntryPointSource)
                    \o SelectSeq(discovered_plugins,
                                 LAMBDA c : startswith(c.source, LocalPrefix))
               /\ \A j \in 1..(next_candidate - 1) :
                    ExternalCandidate(discovered_plugins[j])
                        => \E k \in j..(next_candidate - 1) :
                            /\ ExternalCandidate(discovered_plugins[k])
                            /\ discovered_plugins[k].cls.attrs.tab_name
                                    = discovered_plugins[j].cls.attrs.tab_name
                            /\ Get(plugins, discovered_plugins[j].cls.attrs.tab_name)
                                    = discovered_plugins[k].cls.attrs)
    /\ [](discovery_pc = "registered"
            => \A e, l \in DOMAIN discovered_plugins :
                    (/\ discovered_plugins[e].source = EntryPointSource
                     /\ startswith(discovered_plugins[l].source, LocalPrefix)
                     /\ discovered_plugins[e].cls.attrs.tab_name
                            = discovered_plugins[l].cls.attrs.tab_name
                     /\ ExternalCandidate(discovered_plugins[e])
                     /\ ExternalCandidate(discovered_plugins[l]))
                        => /\ e < l
                           /\ \E last \in l..Len(discovered_plugins) :
                                /\ startswith(discovered_plugins[last].source, LocalPrefix)
                                /\ Get(plugins, discovered_plugins[l].cls.attrs.tab_name)
                                        = discovered_plugins[last].cls.attrs)
    /\ [][next_candidate' # next_candidate
            => /\ next_candidate' = next_candidate + 1
               /\ discovered_plugins' = discovered_plugins
               /\ discovered_plugins[next_candidate].name \in Keys(registration_results')
               /\ \A i \in DOMAIN plugins :
                    plugins[i].name # discovered_plugins[next_candidate].cls.attrs.tab_name
                        => (i \in DOMAIN plugins' /\ plugins'[i] = plugins[i])]_vars

\* an entry point class and a local class of the same name were both
\* registered, and the registry holds the local one
C24_Witness ==
    /\ discovery_pc = "registered"
    /\ Len(discovered_plugins) >= 2
    /\ discovered_plugins[1].source = EntryPointSource
    /\ startswith(discovered_plugins[2].source, LocalPrefix)
    /\ discovered_plugins[1].cls.attrs.tab_name = discovered_plugins[2].cls.attrs.tab_name
    /\ ExternalCandidate(discovered_plugins[1])
    /\ ExternalCandidate(discovered_plugins[2])
    /\ Get(plugins, discovered_plugins[2].cls.attrs.tab_name) # discovered_plugins[1].cls.attrs


(***************************************************************************)
(* Further properties of the registry.                                     *)
(***************************************************************************)
\* C25: enable(name) leaves the name enabled and disable(name) leaves it
\* disabled; applied to a name that is already enabled, respectively already
\* disabled, the call changes nothing, so a second call in a row yields the
\* state of the first.  Neither call changes _plugins, _core_plugins,
\* _external_plugins or _seen_plugins, and is_enabled(name) holds exactly when
\* the name is not in _disabled_plugins.
C25_IdempotentToggles ==
    /\ [](\A name \in TabNames : is_enabled(name) <=> name \notin disabled_plugins)
    /\ [][\A name \in ValidNames :
            /\ enable_plugin(name)
                => /\ name \notin disabled_plugins'
                   /\ disabled_plugins' \subseteq disabled_plugins
                   /\ name \notin disabled_plugins => disabled_plugins' = disabled_plugins
                   /\ UNCHANGED <<plugins, core_plugins, external_plugins, seen_plugins>>
            /\ disable_plugin(name)
                => /\ name \in disabled_plugins'
                   /\ disabled_plugins \subseteq disabled_plugins'
                   /\ name \in disabled_plugins => disabled_plugins' = disabled_plugins
                   /\ UNCHANGED <<plugins, core_plugins, external_plugins, seen_plugins>>]_vars

\* a registered plugin that is disabled by default has been enabled, and a
\* registered plugin that is not has been disabled
C25_Witness ==
    /\ \E i \in DOMAIN plugins :
            plugins[i].cls.disabled_by_default /\ is_enabled(plugins[i].name)
    /\ \E i \in DOMAIN plugins :
            ~plugins[i].cls.disabled_by_default /\ ~is_enabled(plugins[i].name)


\* C26: the dict get_all_plugins, get_core_plugins, get_external_plugins or
\* get_enabled_plugins returns is never one of the registry's own, it holds the
\* entries the registry held at the call, and a step in which the caller adds,
\* replaces or removes an entry of it leaves _plugins, _core_plugins and
\* _external_plugins as they were.
C26_GettersReturnSnapshots ==
    /\ [](returned.id \notin {"_plugins", "_core_plugins", "_external_plugins"})
    /\ [][returned' # returned
            => /\ UNCHANGED <<plugins, core_plugins, external_plugins>>
               /\ returned'.getter # returned.getter
                    => returned'.value =
                            CASE returned'.getter = "get_all_plugins" -> plugins
                              [] returned'.getter = "get_core_plugins" -> core_plugins
                              [] returned'.getter = "get_external_plugins" -> external_plugins
                              [] returned'.getter = "get_enabled_plugins" -> get_enabled_plugins]_vars

\* the caller holds a dict of get_core_plugins in which it has replaced the
\* class of a core plugin the registry still holds
C26_Witness ==
    /\ returned.getter = "get_core_plugins"
    /\ \E n \in DOMAIN core_plugins \cap DOMAIN returned.value :
            /\ returned.value[n] \in CallerClasses(n)
            /\ core_plugins[n] \notin CallerClasses(n)


(***************************************************************************)
(* Properties of the boot-time discovery.                                  *)
(***************************************************************************)
\* C27: when discover_and_register_all_plugins has run its two passes, every
\* count of the summary it returns is the sum of the counts of the two pass
\* summaries (total_discovered, entry_point_plugins, local_plugins) and its
\* listing is the listing of the external pass followed by that of the
\* built-in pass.
C27_MergedSummary ==
    service_pc = "returned" =>
        LET builtin_summary == get_plugin_info_summary
        IN  /\ \A k \in {"total_discovered", "entry_point_plugins", "local_plugins"} :
                    /\ k \in DOMAIN summary
                    /\ summary[k] = external_summary[k] + builtin_summary[k]
            /\ "plugins" \in DOMAIN summary
            /\ summary["plugins"] = external_summary["plugins"] \o builtin_summary["plugins"]


(***************************************************************************)
(* Properties of the candidates of a pass.                                 *)
(***************************************************************************)
\* the four conditions of a candidate, read off the class
ImplementsContract(obj) == obj.is_class /\ obj.is_subclass

HasOwnName(obj) == obj.attrs.tab_name # "" /\ obj.attrs.tab_name # UnnamedTab

Collectable(obj) ==
    /\ ImplementsContract(obj)
    /\ ~obj.is_base
    /\ obj.callable_factory
    /\ HasOwnName(obj)

\* the candidates of the pass
Candidates == Range(discovered_plugins)

\* C28: once the scan is done, a class defined in a loaded module is a
\* candidate exactly when it is a subclass of BaseTabPlugin, is not
\* BaseTabPlugin, has a callable create_widget and a tab_name that is neither
\* empty nor "Unnamed Tab" (a class imported into the module is none), and an
\* object an entry point loads is one under the same four conditions.  Once
\* the pass has registered its candidates on an empty registry, the keys of
\* _plugins are the tab_names of the candidates' classes, the core plugins are
\* the names of the classes with is_core_plugin and the external plugins the
\* other names, whatever the source and the name the candidates carry.
C28_CandidatesAndIdentity ==
    /\ discovery_pc # "idle" =>
        /\ \A i \in DOMAIN plugins_dir.files :
            LET file == plugins_dir.files[i]
            IN  \A k \in DOMAIN file.module.members :
                    LET obj == file.module.members[k]
                    IN  Discovered(obj, LocalPrefix \o file.name)
                            <=> (obj.module = file.name /\ Collectable(obj))
        /\ \A i \in DOMAIN eps.items :
                Discovered(eps.items[i].obj, EntryPointSource) <=> Collectable(eps.items[i].obj)
    /\ discovery_pc = "registered" =>
        /\ Keys(plugins) = {c.cls.attrs.tab_name : c \in Candidates}
        /\ DOMAIN core_plugins =
                {c.cls.attrs.tab_name : c \in {d \in Candidates : d.cls.is_core_plugin}}
        /\ DOMAIN external_plugins = Keys(plugins) \ DOMAIN core_plugins

\* the pass has registered a class of the module as core plugin and a class
\* of an entry point, whose name is another, as external plugin
C28_Witness ==
    /\ discovery_pc = "registered"
    /\ \E c \in Candidates :
            /\ startswith(c.source, LocalPrefix)
            /\ c.cls.attrs.tab_name \in DOMAIN core_plugins
    /\ \E c \in Candidates :
            /\ c.source = EntryPointSource
            /\ c.name # c.cls.attrs.tab_name
            /\ c.cls.attrs.tab_name \in DOMAIN external_plugins


(***************************************************************************)
(* Properties of validate_plugin and of the skipped registrations.         *)
(***************************************************************************)
\* the invariants of a class that are violated, each with its message
ViolatedInvariants(cls) ==
    {inv \in {[of |-> "name", holds |-> cls.tab_name # "" /\ cls.tab_name # UnnamedTab,
               message |-> "Plugin must define a valid tab_name"],
              [of |-> "platforms", holds |-> cls.supported_platforms # {},
               message |-> "Plugin must define supported_platforms"],
              [of |-> "version", holds |-> cls.plugin_version # "",
               message |-> "Plugin must define plugin_version"]} : ~inv.holds}

\* C29: a call of validate_plugin raises nothing and returns one message for
\* every violated invariant (name empty or "Unnamed Tab", supported_platforms
\* empty, plugin_version empty) and no other: the list has no message twice,
\* its length is the number of violated invariants, and it is empty exactly
\* when the three invariants hold.
C29_OneMessagePerViolation ==
    validation.called =>
        LET violated == ViolatedInvariants(validation.cls)
            errors == validation.errors
        IN  /\ raised = "none"
            /\ Range(errors) = {inv.message : inv \in violated}
            /\ \A i, j \in DOMAIN errors : errors[i] = errors[j] => i = j
            /\ Len(errors) = Cardinality(violated)
            /\ errors = <<>> <=> violated = {}

\* validate_plugin was called on a class that violates two of the three
\* invariants and returned two messages
C29_Witness ==
    /\ validation.called
    /\ Cardinality(ViolatedInvariants(validation.cls)) = 2
    /\ Len(validation.errors) = 2


\* C30: a register_plugin call on a valid class that is not compatible with
\* the platform, or on a valid class registered as external while its name
\* is a core plugin, returns without an exception and leaves _plugins,
\* _core_plugins, _external_plugins, _disabled_plugins and _seen_plugins as
\* they were, whether the class is disabled by default or not.
C30_SkippedRegisterChangesNothing ==
    [][LET cls == last_call'.cls
       IN  (/\ last_call'.made
            /\ ValidDescriptor(cls)
            /\ \/ ~OnCurrentPlatform(cls)
               \/ ~last_call'.is_core /\ cls.tab_name \in DOMAIN core_plugins)
                => /\ UNCHANGED registry
                   /\ raised' = "none"]_vars

\* the last call registered as external a default-disabled class whose name
\* is a core plugin, and the name is enabled
C30_Witness ==
    /\ last_call.made
    /\ ~last_call.is_core
    /\ last_call.cls.disabled_by_default
    /\ ValidDescriptor(last_call.cls)
    /\ OnCurrentPlatform(last_call.cls)
    /\ last_call.cls.tab_name \in DOMAIN core_plugins
    /\ last_call.cls.tab_name \notin disabled_plugins



\* C37: a register_plugin call that repeats the call just made, with the same
\* valid class compatible with the platform and the same is_core flag, leaves
\* _plugins, _core_plugins, _external_plugins, _disabled_plugins and
\* _seen_plugins exactly as the first call left them, and raises nothing.
C37_ReRegistrationIdempotent ==
    [][(/\ last_call.made
        /\ last_call' = last_call
        /\ ValidDescriptor(last_call.cls)
        /\ OnCurrentPlatform(last_call.cls))
            => /\ UNCHANGED registry
               /\ raised' = "none"]_vars

\* the last call stored a default-disabled class as a core plugin and disabled
\* its name; no external plugin is registered
C37_Witness ==
    /\ last_call.made
    /\ last_call.is_core
    /\ last_call.cls.disabled_by_default
    /\ ValidDescriptor(last_call.cls)
    /\ OnCurrentPlatform(last_call.cls)
    /\ last_call.cls.tab_name \in DOMAIN core_plugins
    /\ core_plugins[last_call.cls.tab_name] = last_call.cls
    /\ Get(plugins, last_call.cls.tab_name) = last_call.cls
    /\ last_call.cls.tab_name \in disabled_plugins
    /\ last_call.cls.tab_name \in seen_plugins
    /\ external_plugins = EmptyMap


(***************************************************************************)
(* Properties of the tab strip.                                            *)
(***************************************************************************)
\* the names on the tabs of the strip
TabTexts == {tabs[i].text : i \in DOMAIN tabs}

\* C31: the tab strip never holds two tabs with the same plugin name, also
\* when the user enables or disables a plugin in the management dialog while
\* add_tab signals of the worker are still queued.
C31_OneTabPerName ==
    \A i, j \in DOMAIN tabs : tabs[i].text = tabs[j].text => i = j


\* C32: every tab of the strip belongs to a plugin that is registered and
\* enabled: whenever no reload is running, each name with a tab is a key of
\* _plugins and is not in _disabled_plugins.
C32_TabsAreEnabledPlugins ==
    dialog_pc # "reloading" =>
        \A n \in TabTexts : n \in Keys(plugins) /\ n \notin disabled_plugins


\* C33: a selection that materializes a tab replaces the content at the same
\* index: when the handler has returned, the number of tabs and the order of
\* the tab names are those the selection found and the selected index is
\* current; and the names of loaded_tabs are always the names on the tabs of
\* the strip.
C33_MaterializeInPlace ==
    /\ [](DOMAIN loaded_tabs = TabTexts)
    /\ [][\A index \in 0..(Len(tabs) - 1), outcome \in FactoryOutcomes :
            SelectTab(index, outcome)
                => /\ Len(tabs') = Len(tabs)
                   /\ \A i \in DOMAIN tabs : tabs'[i].text = tabs[i].text
                   /\ current_index' = index
                   /\ ~is_loading_tab']_vars


\* C34: whenever on_tab_changed is not running and the strip holds a tab, the
\* current index is the index of a tab and that tab is not a Placeholder; and
\* every step that changes the tabs or the current index (a selection, an
\* add_tab, the removal of a tab on disable) returns with the guard released
\* and the tab that is now current materialized.
C34_CurrentTabMaterialized ==
    /\ []((~is_loading_tab /\ tabs # <<>>)
            => /\ current_index \in 0..(Len(tabs) - 1)
               /\ TabState(tabs[current_index + 1]) # "Placeholder")
    /\ [][(tabs' # tabs \/ current_index' # current_index)
            => /\ ~is_loading_tab'
               /\ tabs' # <<>> => TabState(tabs'[current_index' + 1]) \in Materialized]_vars

(***************************************************************************)
(* Properties of the results of a discovery pass.                          *)
(***************************************************************************)
\* the candidate whose registration wrote the entry of registration_results
\* for the name: the last one of discovered_plugins with that name
ReportedCandidate(name) ==
    discovered_plugins[CHOOSE i \in DOMAIN discovered_plugins :
                            /\ discovered_plugins[i].name = name
                            /\ \A j \in DOMAIN discovered_plugins :
                                    discovered_plugins[j].name = name => j <= i]

\* C35: when a discovery pass has returned, the class reported with a success
\* status is in the registry under its tab name, mapped to that very class; a
\* candidate that was not registered (incompatible platform, name held by a
\* core plugin) is not reported as success.
C35_SuccessMeansRegistered ==
    discovery_pc = "registered" =>
        \A name \in Keys(registration_results) :
            Get(registration_results, name).status = "success" =>
                LET cls == ReportedCandidate(name).cls.attrs
                IN  /\ cls.tab_name \in Keys(plugins)
                    /\ Get(plugins, cls.tab_name) = cls

(***************************************************************************)
(* Properties of discover_and_register_all_plugins.                        *)
(***************************************************************************)
\* the names whose entry is a class of the static core list, registered by
\* the loop over all_core_plugins
PreRegisteredCore == {n \in DOMAIN core_plugins : core_plugins[n] \in CorePluginClasses}

\* the entries of the name in _plugins and in _core_plugins are as they were
KeepsCoreEntry(n) ==
    /\ n \in Keys(plugins')
    /\ Get(plugins', n) = Get(plugins, n)
    /\ n \in DOMAIN core_plugins'
    /\ core_plugins'[n] = core_plugins[n]

\* C36: no step of the two discovery passes replaces or removes the _plugins
\* entry or the _core_plugins entry of a name pre-registered from the static
\* core list, whatever the class found declares.
C36_PreRegisteredCoreKept ==
    [][(service_pc = "external" \/ service_pc = "builtin")
            => \A n \in PreRegisteredCore : KeepsCoreEntry(n)]_vars

\* C38: no step of discover_and_register_all_plugins leaves parent_dir in
\* sys.path when it was not there before the step, neither when the import of
\* platforms.core_plugins succeeds nor when it raises: a search path without
\* the entry at the call is without it at the return.
C38_SearchPathRestoredAtBoot ==
    [][(ParentDirStr \notin Range(sys_path)) => (ParentDirStr \notin Range(sys_path'))]_vars

=============================================================================
